---- MODULE Spec2Model ----
(***************************************************************************)
(* Data distributor (fdbserver/DataDistribution.actor.cpp): the storage    *)
(* audit engine (audit map, launchAudit, auditStorageCore, runAuditStorage,*)
(* resumeStorageAudits, the TriggerAudit handler) inside the supervisor's  *)
(* generation loop, the StorageWiggler priority queue, the resumption of   *)
(* in-flight relocations (resumeFromShards, resumeFromDataMoves), and the  *)
(* snapshot requests (the DistributorSnap handler, ddSnapCreate,           *)
(* ddSnapCreateCore), the supervisor itself (DataDistributor::init,        *)
(* dataDistribution's catch block, serveBlobMigratorRequests), an audit's  *)
(* children (makeAuditProgressOnRange / OnServer, scheduleAuditOnRange,    *)
(* doAuditOnStorageServer), and the relocation streams across generations. *)
(***************************************************************************)
EXTENDS Integers, Sequences, FiniteSets, TLC

\* ------------------------------------------------------------------ bounds
MaxReq == 2                  \* TriggerAudit requests received
MaxAuditId == 2              \* audit ids persistNewAuditState hands out per type
MaxGen == 1                  \* generations torn down and re-bootstrapped
MaxServers == 2              \* storage server ids the wiggler is told about
MaxTime == 1                 \* createdTime of a server's metadata: 0..MaxTime
MaxNow == 2                  \* now() advances from 0 up to MaxNow
MaxKey == 2                  \* keys are 0..MaxKey; allKeys = [0, MaxKey)
MaxUid == 2                  \* snapshot uids 1..MaxUid
MaxSnapReq == 2              \* DistributorSnap requests received
MaxTLogs == 2                \* local tlogs
MaxStorage == 1              \* storage workers a snapshot is sent to: 0..MaxStorage
MaxCoord == 4                \* coordinators a snapshot is sent to: 0..MaxCoord
MaxLock == 3                 \* move-keys locks taken by init
MaxGenerations == 2          \* generations re-bootstrapped by dataDistribution's loop
MaxBlobReq == 2              \* PrepareBlobRestoreRequests received
MaxAuditKey == 3             \* keys of the range an audit's children walk
MaxReplicas == 2             \* replicas (HA: regions) of a sub-range
MaxTeardowns == 1            \* generations torn down after resumeRelocations
MaxRead == 1                 \* loop iterations followed past the end of an empty shard list

\* ------------------------------------------------------------------- knobs
AUDIT_RETRY_COUNT_MAX == 1              \* SERVER_KNOBS->AUDIT_RETRY_COUNT_MAX, scaled down
DD_STORAGE_WIGGLE_MIN_SS_AGE_SEC == 1   \* SERVER_KNOBS->DD_STORAGE_WIGGLE_MIN_SS_AGE_SEC, scaled down
MAX_COORDINATOR_SNAPSHOT_FAULT_TOLERANCE == 1   \* SERVER_KNOBS->MAX_COORDINATOR_SNAPSHOT_FAULT_TOLERANCE
DD_MAX_SHARDS_ON_LARGE_TEAMS == 1       \* SERVER_KNOBS->DD_MAX_SHARDS_ON_LARGE_TEAMS, scaled down

\* ------------------------------------------------------------------ values
AuditTypes == {"ValidateHA", "ValidateReplica"}    \* the supported types modelled
InvalidType == "Invalid"                           \* a type runAuditStorage rejects
RequestTypes == AuditTypes \cup {InvalidType}
Ranges == {<<0, 2>>, <<0, 1>>}                     \* [begin, end) over keys 0..2
NoRange == <<0, 0>>
AuditKeys == RequestTypes \X (1..MaxAuditId)       \* (type, id)
NoKey == <<"none", 0>>
Reqs == 1..MaxReq

\* KeyRangeRef::contains
Contains(outer, inner) == outer[1] <= inner[1] /\ inner[2] <= outer[2]

NoState == [phase |-> "Invalid", range |-> NoRange]
NoAudit == [pc |-> "none", range |-> NoRange, phase |-> "Invalid", retryCount |-> 0,
            foundError |-> FALSE, anyChildAuditFailed |-> FALSE, lock |-> 0, err |-> ""]
NewReq == [pc |-> "new", type |-> "none", range |-> NoRange, retryCount |-> 0,
           lock |-> 0, err |-> "", replies |-> <<>>]
EmptyDisk == [k \in AuditKeys |-> NoState]
IdReply(k) == [err |-> "", id |-> k]
ErrReply(e) == [err |-> e, id |-> NoKey]

Servers == 1..MaxServers
NoServer == 0                                      \* an empty Optional<UID>
StorageMetadataType == [createdTime : 0..MaxTime, wrongConfigured : BOOLEAN]
NoCall == [op |-> "none", necessaryOnly |-> FALSE, result |-> NoServer, threw |-> FALSE]

VARIABLES
  ddState,     \* "up" | "halted" | "crashed" (a failed ASSERT) | "failed" (role died)
  genPhase,    \* position of dataDistribution's loop body in the current generation
  gen,         \* generations torn down so far
  lock,        \* self->lock: the move-keys lock owner epoch
  disk,        \* durable audit states, by (type, id)
  initData,    \* self->initData->auditStates: snapshot loaded by init()
  audits,      \* self->audits: the runtime audit map, with each DDAudit's actor position
  reqs,        \* TriggerAudit requests and their auditStorage handlers
  wiggle_pq,   \* StorageWiggler::wiggle_pq: the heap's nodes, each <<metadata, serverId>>
  pq_handles,  \* StorageWiggler::pq_handles: the ids that have a handle (to the id's node)
  now,         \* now()
  lastCall,    \* the last StorageWiggler call and what it returned
  queued,      \* the heap's nodes as addServer/removeServer/updateMetadata last left them
  nextSeq,     \* the nodes getNextServerId has popped since then, in order
  shards,      \* self->initData->shards: DDShardInfo entries, the last one the end sentinel
  dataMoveMap, \* self->initData->dataMoveMap.ranges(): <<range, DataMove>> entries in key order
  userRangeConfig,    \* self->initData->userRangeConfig->ranges(): entries in key order
  configuration,      \* self->configuration and the knobs the resumption reads
  resumePc,    \* "idle" | "physical" | "shards" | "dataMoves" | "done" | "crashed" | "error"
  shard,       \* resumeFromShards' loop variable
  customBoundary,     \* resumeFromShards' index into customBoundaries
  overreplicatedCount,
  it,          \* resumeFromDataMoves' iterator, as an index into dataMoveMap
  shardReads,  \* the indices (from 0) of initData->shards read so far
  relocationProducer, \* the RelocateShard values sent, in order
  relocationConsumer, \* the RelocateShard values the queue has received, in order
  distributor, \* dataDistributor: "running" | "halted" | "failed" (internal_error)
  ddSnapReqMap,       \* ddSnapReqMap: per uid the ongoing request, as its index in snapReqs
  ddSnapReqResultMap, \* ddSnapReqResultMap: per uid "none", "ok" or the error recorded
  ddEnabledState,     \* DDEnabledState: mode and owner
  snapCore,    \* per uid: where its ddSnapCreate/ddSnapCreateCore stands and what it has sent
  snapReqs,    \* the DistributorSnapRequests received, each with the reply it got
  writeRecoveryKey,   \* the durable write-recovery flag
  coreRuns,    \* per uid: the ddSnapCreateCore actors started so far
  supPc,       \* where dataDistribution stands: in init, in the generation, in the catch block
  ddModeDurable,      \* the durable DD mode (dataDistributionModeKey)
  moveKeysLock,       \* the epoch of the move-keys lock last stored in self->lock
  initLog,     \* the steps init's current iteration has completed, in order
  ddInitData,  \* self->initData: the lock it was loaded with and its mode
  genErr,      \* err: the error the catch block caught
  thrown,      \* the error dataDistribution ended with, "" while it runs
  removeFailedServer, \* the removeFailedServer promise: unset or the server id
  catchLog,    \* the steps the catch block has completed, in order
  teamCollections,    \* the team collections exist
  actors,      \* the generation's actors (waitForAll(actors)) are running
  blobReqs,    \* the PrepareBlobRestoreRequests received, each with the reply it got
  blobPrep,    \* the request prepareDataMigration is running for, as its index in blobReqs
  prepRuns,    \* per requester: the prepareDataMigration actors started so far
  generations, \* generations re-bootstrapped so far
  walkType,    \* audit->coreState.getType() of the audit whose children run
  auditProgress,      \* the durable audit progress: per key the phase of its range
  rangeLocations,     \* per key: the replicas getSourceServerInterfacesForRange reports
  walker,      \* makeAuditProgressOnRange / OnServer: its position and its cursor begin
  schedulers,  \* the scheduleAuditOnRange actors, by range.begin
  doAudits,    \* the doAuditOnStorageServer actors, by req.range.begin
  spawned,     \* per key: the walker's children whose range holds the key
  dispatched,  \* per key: the doAuditOnStorageServer actors whose req.range holds the key
  auditFlags,  \* audit->foundError and audit->anyChildAuditFailed
  tornDown     \* per generation torn down: the lengths of both streams at that time

auditVars == <<ddState, genPhase, gen, lock, disk, initData, audits, reqs>>
wigglerVars == <<wiggle_pq, pq_handles, now, lastCall, queued, nextSeq>>
resumeVars == <<shards, dataMoveMap, userRangeConfig, configuration, resumePc, shard,
                customBoundary, overreplicatedCount, it, shardReads, relocationProducer,
                relocationConsumer>>
snapVars == <<distributor, ddSnapReqMap, ddSnapReqResultMap, ddEnabledState, snapCore,
              snapReqs, writeRecoveryKey, coreRuns>>
supVars == <<supPc, ddModeDurable, moveKeysLock, initLog, ddInitData, genErr, thrown,
             removeFailedServer, catchLog, teamCollections, actors, blobReqs, blobPrep,
          prepRuns,
             generations>>
walkVars == <<walkType, auditProgress, rangeLocations, walker, schedulers, doAudits, spawned,
              dispatched, auditFlags>>
busVars == <<tornDown>>
vars == <<ddState, genPhase, gen, lock, disk, initData, audits, reqs,
          wiggle_pq, pq_handles, now, lastCall, queued, nextSeq,
          shards, dataMoveMap, userRangeConfig, configuration, resumePc, shard,
          customBoundary, overreplicatedCount, it, shardReads, relocationProducer,
          relocationConsumer,
          distributor, ddSnapReqMap, ddSnapReqResultMap, ddEnabledState, snapCore,
          snapReqs, writeRecoveryKey, coreRuns,
          supPc, ddModeDurable, moveKeysLock, initLog, ddInitData, genErr, thrown,
          removeFailedServer, catchLog, teamCollections, actors, blobReqs, blobPrep,
          prepRuns,
          generations,
          walkType, auditProgress, rangeLocations, walker, schedulers, doAudits, spawned,
          dispatched, auditFlags, tornDown>>

\* ------------------------------------------------------------ audit map ops
AuditInitialized == genPhase \in {"auditReady", "running"}
Initialized == genPhase = "running"

auditExistInAuditMap(k) == audits[k].pc # "none"
\* (mutation) only audits still in phase Running count
existAuditInAuditMapForType_RunningOnly(t) ==
  \E k \in AuditKeys : k[1] = t /\ audits[k].pc # "none" /\ audits[k].phase = "Running"

existAuditInAuditMapForType(t) == \E k \in AuditKeys : k[1] = t /\ auditExistInAuditMap(k)
getAuditsForType(t) == {k \in AuditKeys : k[1] = t /\ auditExistInAuditMap(k)}
removeAuditFromAuditMap(a, k) == [a EXCEPT ![k] = NoAudit]

\* runAuditStorage after its validation: make the DDAudit, register it, start
\* auditStorageCore (which captures self->lock and dispatches the children).
runAuditStorage(a, k, range, retryCount) ==
  [a EXCEPT ![k] = [pc |-> "children", range |-> range, phase |-> "Running",
                    retryCount |-> retryCount, foundError |-> FALSE,
                    anyChildAuditFailed |-> FALSE, lock |-> lock, err |-> ""]]

\* persistNewAuditState: the id after the latest one persisted for the type
NextAuditId(t) ==
  LET used == {k[2] : k \in {x \in AuditKeys : x[1] = t /\ disk[x].phase # "Invalid"}}
  IN  IF used = {} THEN 1 ELSE 1 + CHOOSE n \in used : \A m \in used : m <= n

\* ------------------------------------------------------------- auditStorage
\* auditStorage has finished: the actor's state is gone, the replies it sent stay
Finished(r, e, reply) ==
  [NewReq EXCEPT !.pc = "done", !.type = r.type, !.range = r.range, !.err = e,
                 !.replies = Append(r.replies, reply)]

\* auditStorage's catch block for an error of launchAudit other than cancellation
LaunchFailed(r, e) ==
  IF r.retryCount < AUDIT_RETRY_COUNT_MAX
    THEN [r EXCEPT !.retryCount = @ + 1, !.pc = "retryDelay", !.err = e, !.lock = 0]
    ELSE Finished(r, e, ErrReply("audit_storage_failed"))

\* The running audits of type t whose range contains range
MatchingAudits(t, range) ==
  {k \in getAuditsForType(t) :
     Contains(audits[k].range, range) /\ audits[k].phase = "Running"}

\* The audits launchAudit's loop over getAuditsForType can stop at
Picks(r) ==
  IF MatchingAudits(r.type, r.range) = {} THEN {NoKey} ELSE MatchingAudits(r.type, r.range)

\* (mutation) an existing audit is never reused
LaunchBody_NoReuse(r, pick) ==
  IF existAuditInAuditMapForType(r.type)
    THEN LaunchFailed(r, "audit_storage_exceeded_request_limit")
    ELSE [r EXCEPT !.pc = "persistNew"]

\* launchAudit from the ready futures to its next suspension or its end, its loop
\* having stopped at pick; the handler's request record afterwards
LaunchBody(r, pick) ==
  IF existAuditInAuditMapForType(r.type)
    THEN IF pick = NoKey
           THEN LaunchFailed(r, "audit_storage_exceeded_request_limit")
           ELSE Finished(r, "", IdReply(pick))
    ELSE [r EXCEPT !.pc = "persistNew"]

\* launchAudit is entered: it captures the lock and waits for both promises
EnterLaunch(q, r0) ==
  LET r == [r0 EXCEPT !.lock = lock, !.err = ""]
  IN  IF AuditInitialized /\ Initialized
        THEN \E pick \in Picks(r) : reqs' = [reqs EXCEPT ![q] = LaunchBody(r, pick)]
        ELSE reqs' = [reqs EXCEPT ![q] = [r EXCEPT !.pc = "waitInit"]]

\* A TriggerAuditRequest arrives and auditStorage starts
TriggerAudit(q, t, range) ==
  /\ ddState = "up"
  /\ reqs[q].pc = "new"
  /\ \A p \in 1..(q - 1) : reqs[p].pc # "new"     \* requests are numbered as they arrive
  /\ LET r0 == [reqs[q] EXCEPT !.type = t, !.range = range,
                  !.replies = IF t \notin AuditTypes
                                THEN <<ErrReply("not_implemented")>> ELSE <<>>]
     IN  EnterLaunch(q, r0)
  /\ UNCHANGED <<ddState, genPhase, gen, lock, disk, initData, audits>>
  /\ UNCHANGED <<wigglerVars, resumeVars, snapVars, supVars, walkVars, busVars>>

\* auditStorage's delay(0.1) ends and it calls launchAudit again
LaunchRetry(q) ==
  /\ ddState = "up"
  /\ reqs[q].pc = "retryDelay"
  /\ EnterLaunch(q, reqs[q])
  /\ UNCHANGED <<ddState, genPhase, gen, lock, disk, initData, audits>>
  /\ UNCHANGED <<wigglerVars, resumeVars, snapVars, supVars, walkVars, busVars>>

\* (mutation) the audit is registered although nothing was committed
PersistNewAuditStateOk_NoCommit(q) ==
  /\ ddState = "up"
  /\ reqs[q].pc = "persistNew"
  /\ reqs[q].type \in AuditTypes
  /\ LET r == reqs[q]
         k == <<r.type, NextAuditId(r.type)>>
     IN  /\ audits' = runAuditStorage(audits, k, r.range, 0)
         /\ reqs' = [reqs EXCEPT ![q] = Finished(r, "", IdReply(k))]
  /\ UNCHANGED <<ddState, genPhase, gen, lock, disk, initData>>
  /\ UNCHANGED <<wigglerVars, resumeVars, snapVars, supVars, walkVars, busVars>>

\* persistNewAuditState commits and launchAudit registers the audit
PersistNewAuditStateOk(q) ==
  /\ ddState = "up"
  /\ reqs[q].pc = "persistNew"
  /\ reqs[q].lock = lock
  /\ NextAuditId(reqs[q].type) <= MaxAuditId
  /\ LET r == reqs[q]
         k == <<r.type, NextAuditId(r.type)>>
     IN  /\ disk' = [disk EXCEPT ![k] = [phase |-> "Running", range |-> r.range]]
         /\ IF r.type \notin AuditTypes
              THEN \* runAuditStorage throws not_implemented
                   /\ reqs' = [reqs EXCEPT ![q] = LaunchFailed(r, "not_implemented")]
                   /\ UNCHANGED audits
              ELSE /\ audits' = runAuditStorage(audits, k, r.range, 0)
                   /\ reqs' = [reqs EXCEPT ![q] = Finished(r, "", IdReply(k))]
  /\ UNCHANGED <<ddState, genPhase, gen, lock, initData>>
  /\ UNCHANGED <<wigglerVars, resumeVars, snapVars, supVars, walkVars, busVars>>

\* persistNewAuditState fails (lock lost, or another error)
PersistNewAuditStateFail(q, e) ==
  /\ ddState = "up"
  /\ reqs[q].pc = "persistNew"
  /\ reqs' = [reqs EXCEPT ![q] = LaunchFailed(reqs[q], e)]
  /\ UNCHANGED <<ddState, genPhase, gen, lock, disk, initData, audits>>
  /\ UNCHANGED <<wigglerVars, resumeVars, snapVars, supVars, walkVars, busVars>>

\* --------------------------------------------------------- auditStorageCore
doAuditOnStorageServerError_AlwaysChildFailed(a, e) ==
  [a EXCEPT !.anyChildAuditFailed = TRUE]

\* doAuditOnStorageServer's catch block: the storage server answered with error e
doAuditOnStorageServerError(a, e) ==
  IF e = "audit_storage_error"
    THEN [a EXCEPT !.foundError = TRUE]
    ELSE [a EXCEPT !.anyChildAuditFailed = TRUE]

\* (mutation) the retry limit is compared with <=
CoreCatch_OneRetryMore(a, e) ==
  IF e = "movekeys_conflict"
    THEN [a EXCEPT !.pc = "dead", !.err = e]
    ELSE IF a.retryCount <= AUDIT_RETRY_COUNT_MAX /\ e # "not_implemented"
           THEN [a EXCEPT !.retryCount = @ + 1, !.pc = "retryDelay", !.err = e]
           ELSE [a EXCEPT !.phase = "Failed", !.pc = "persistFailed", !.err = e]

\* auditStorageCore's catch block, for an error e other than cancellation
CoreCatch(a, e) ==
  IF e = "movekeys_conflict"
    THEN [a EXCEPT !.pc = "dead", !.err = e]   \* rethrown: the actor ends, the entry stays
    ELSE IF a.retryCount < AUDIT_RETRY_COUNT_MAX /\ e # "not_implemented"
           THEN [a EXCEPT !.retryCount = @ + 1, !.pc = "retryDelay", !.err = e]
           ELSE [a EXCEPT !.phase = "Failed", !.pc = "persistFailed", !.err = e]

\* auditStorageCore after all children have finished, up to its next suspension
CoreGotResult(a) ==
  IF a.foundError
    THEN [a EXCEPT !.phase = "Error", !.pc = "persistFinal"]
    ELSE IF a.anyChildAuditFailed
           THEN CoreCatch([a EXCEPT !.anyChildAuditFailed = FALSE], "retry")
           ELSE [a EXCEPT !.phase = "Complete", !.pc = "persistFinal"]

\* The flags the audit's children leave behind when the errors they met are errs
ChildrenOutcome(a, errs) ==
  LET a1 == IF "audit_storage_error" \in errs
              THEN doAuditOnStorageServerError(a, "audit_storage_error") ELSE a
  IN  IF "request_maybe_delivered" \in errs
        THEN doAuditOnStorageServerError(a1, "request_maybe_delivered") ELSE a1

\* The audit's children have all finished, having met the errors errs, and
\* wait(audit->actors.getResult()) returns
AuditChildrenDone(k, errs) ==
  /\ ddState = "up"
  /\ audits[k].pc = "children"
  /\ audits' = [audits EXCEPT ![k] = CoreGotResult(ChildrenOutcome(@, errs))]
  /\ UNCHANGED <<ddState, genPhase, gen, lock, disk, initData, reqs>>
  /\ UNCHANGED <<wigglerVars, resumeVars, snapVars, supVars, walkVars, busVars>>

\* persistAuditState of the final phase (Complete or Error) commits
PersistFinalOk(k) ==
  /\ ddState = "up"
  /\ audits[k].pc = "persistFinal"
  /\ audits[k].lock = lock
  /\ disk' = [disk EXCEPT ![k].phase = audits[k].phase]
  /\ audits' = removeAuditFromAuditMap(audits, k)
  /\ UNCHANGED <<ddState, genPhase, gen, lock, initData, reqs>>
  /\ UNCHANGED <<wigglerVars, resumeVars, snapVars, supVars, walkVars, busVars>>

\* persistAuditState of the final phase fails with e
PersistFinalFail(k, e) ==
  /\ ddState = "up"
  /\ audits[k].pc = "persistFinal"
  /\ audits' = [audits EXCEPT ![k] = CoreCatch(@, e)]
  /\ UNCHANGED <<ddState, genPhase, gen, lock, disk, initData, reqs>>
  /\ UNCHANGED <<wigglerVars, resumeVars, snapVars, supVars, walkVars, busVars>>

\* The retry branch after delay(0.1): the old entry is erased and runAuditStorage
\* is called with the old audit's coreState. Its ASSERT wants phase Running: when
\* it fails, the error leaves the actor, and either only the actor ends or the
\* process does.
RetryAfterDelay(k) ==
  /\ ddState = "up"
  /\ audits[k].pc = "retryDelay"
  /\ IF audits[k].phase = "Running"
       THEN /\ audits' = runAuditStorage(removeAuditFromAuditMap(audits, k), k,
                                         audits[k].range, audits[k].retryCount)
            /\ UNCHANGED ddState
       ELSE /\ audits' = removeAuditFromAuditMap(audits, k)
            /\ ddState' \in {"up", "crashed"}
  /\ UNCHANGED <<genPhase, gen, lock, disk, initData, reqs>>
  /\ UNCHANGED <<wigglerVars, resumeVars, snapVars, supVars, walkVars, busVars>>

\* persistAuditState of phase Failed commits
PersistFailedOk(k) ==
  /\ ddState = "up"
  /\ audits[k].pc = "persistFailed"
  /\ audits[k].lock = lock
  /\ disk' = [disk EXCEPT ![k].phase = "Failed"]
  /\ audits' = removeAuditFromAuditMap(audits, k)
  /\ UNCHANGED <<ddState, genPhase, gen, lock, initData, reqs>>
  /\ UNCHANGED <<wigglerVars, resumeVars, snapVars, supVars, walkVars, busVars>>

\* persistAuditState of phase Failed fails: the error is swallowed (zombie audit)
PersistFailedFail(k) ==
  /\ ddState = "up"
  /\ audits[k].pc = "persistFailed"
  /\ audits' = removeAuditFromAuditMap(audits, k)
  /\ UNCHANGED <<ddState, genPhase, gen, lock, disk, initData, reqs>>
  /\ UNCHANGED <<wigglerVars, resumeVars, snapVars, supVars, walkVars, busVars>>

\* ------------------------------------------------------- generation loop
\* DataDistributor::init: takeMoveKeysLock
TakeMoveKeysLock ==
  /\ ddState = "up"
  /\ genPhase = "init"
  /\ genPhase' = "locked"
  /\ lock' = lock + 1
  /\ UNCHANGED <<ddState, gen, disk, initData, audits, reqs>>
  /\ UNCHANGED <<wigglerVars, resumeVars, snapVars, supVars, walkVars, busVars>>

\* DataDistributor::init: loadInitialDataDistribution
LoadInitialDataDistribution ==
  /\ ddState = "up"
  /\ genPhase = "locked"
  /\ genPhase' = "loaded"
  /\ initData' = disk
  /\ UNCHANGED <<ddState, gen, lock, disk, audits, reqs>>
  /\ UNCHANGED <<wigglerVars, resumeVars, snapVars, supVars, walkVars, busVars>>

\* The audits resumeStorageAudits runs: the durable ones in phase Running
ResumedAudits == {k \in AuditKeys : initData[k].phase = "Running"}

\* resumeStorageAudits once cancelAllAuditsInAuditMap has emptied the map
resumeFromDisk ==
  [k \in AuditKeys |->
     IF k \in ResumedAudits
       THEN [pc |-> "children", range |-> initData[k].range, phase |-> "Running",
             retryCount |-> 0, foundError |-> FALSE, anyChildAuditFailed |-> FALSE,
             lock |-> lock, err |-> ""]
       ELSE NoAudit]

\* resumeStorageAudits, then auditInitialized.send
ResumeStorageAudits ==
  /\ ddState = "up"
  /\ genPhase = "loaded"
  /\ genPhase' = "auditReady"
  /\ initData' = EmptyDisk      \* not read again before the next load
  /\ IF \A k \in AuditKeys : initData[k].phase = "Invalid"
       THEN UNCHANGED <<audits, ddState>>
       ELSE IF \E k \in ResumedAudits : k[1] \notin AuditTypes
              THEN \* runAuditStorage throws not_implemented out of the generation
                   /\ audits' = [k \in AuditKeys |-> NoAudit]
                   /\ ddState' = "failed"
              ELSE /\ audits' = resumeFromDisk
                   /\ \/ UNCHANGED ddState
                      \/ \* cancel() of an audit waiting in its Failed branch erases
                         \* the entry cancelAllAuditsInAuditMap is iterating over
                         /\ \E k \in AuditKeys : audits[k].pc = "persistFailed"
                         /\ ddState' = "crashed"
  /\ UNCHANGED <<gen, lock, disk, reqs>>
  /\ UNCHANGED <<wigglerVars, resumeVars, snapVars, supVars, walkVars, busVars>>

\* The tracker sets self->initialized: every launchAudit waiting for it goes on
\* within the send
TrackerReady ==
  /\ ddState = "up"
  /\ genPhase = "auditReady"
  /\ genPhase' = "running"
  /\ \E pick \in [Reqs -> AuditKeys \cup {NoKey}] :
       /\ \A q \in Reqs : pick[q] \in Picks(reqs[q])
       /\ reqs' = [q \in Reqs |->
                     IF reqs[q].pc = "waitInit"
                       THEN LaunchBody(reqs[q], pick[q]) ELSE reqs[q]]
  /\ UNCHANGED <<ddState, gen, lock, disk, initData, audits>>
  /\ UNCHANGED <<wigglerVars, resumeVars, snapVars, supVars, walkVars, busVars>>

\* The generation ends, in init() or later, with an error the supervisor
\* swallows: the loop starts over with fresh promises; a launchAudit waiting on
\* the old ones gets broken_promise.
GenerationEnds ==
  /\ ddState = "up"
  /\ gen < MaxGen
  /\ gen' = gen + 1
  /\ genPhase' = "init"
  /\ reqs' = [q \in Reqs |->
                IF reqs[q].pc = "waitInit"
                  THEN LaunchFailed(reqs[q], "broken_promise") ELSE reqs[q]]
  /\ UNCHANGED <<ddState, lock, disk, initData, audits>>
  /\ UNCHANGED <<wigglerVars, resumeVars, snapVars, supVars, walkVars, busVars>>

\* The data distributor is halted: its auditStorage handlers are cancelled
HandlerCancelled(r) ==
  IF r.pc \in {"waitInit", "persistNew"}
    THEN \* cancelled inside launchAudit: the catch block sends broken_promise
         Finished(r, "actor_cancelled", ErrReply("broken_promise"))
    ELSE IF r.pc = "retryDelay"
           THEN \* cancelled in the catch block's delay: an unanswered reply promise
                \* is broken when it is destroyed
                IF r.replies = <<>>
                  THEN Finished(r, "actor_cancelled", ErrReply("broken_promise"))
                  ELSE [NewReq EXCEPT !.pc = "done", !.type = r.type, !.range = r.range,
                                      !.err = "actor_cancelled", !.replies = r.replies]
           ELSE r

\* HaltDataDistributorRequest: the role ends, and its in-memory state with it
Halt ==
  /\ ddState = "up"
  /\ ddState' = "halted"
  /\ reqs' = [q \in Reqs |-> HandlerCancelled(reqs[q])]
  /\ audits' = [k \in AuditKeys |-> NoAudit]
  /\ genPhase' = "init"
  /\ gen' = 0
  /\ lock' = 0
  /\ initData' = EmptyDisk
  /\ UNCHANGED disk
  /\ UNCHANGED <<wigglerVars, resumeVars, snapVars, supVars, walkVars, busVars>>

\* ---------------------------------------------------------- StorageWiggler
\* The heap's order: wrongly configured servers first, then the older createdTime
Before(m1, m2) ==
  IF m1.wrongConfigured # m2.wrongConfigured
    THEN m1.wrongConfigured
    ELSE m1.createdTime < m2.createdTime

\* wiggle_pq.top(): a node no other node comes before
Tops == {e \in wiggle_pq : \A f \in wiggle_pq : ~Before(f[1], e[1])}

\* *handle of pq_handles.at(serverId): the node emplaced for serverId
Node(serverId) == CHOOSE e \in wiggle_pq : e[2] = serverId

\* (mutation) a server of exactly the minimum age counts as old
necessary_AtMinAge(metadata) ==
  metadata.wrongConfigured \/ now - metadata.createdTime >= DD_STORAGE_WIGGLE_MIN_SS_AGE_SEC

\* StorageWiggler::necessary
necessary(metadata) ==
  metadata.wrongConfigured \/ now - metadata.createdTime > DD_STORAGE_WIGGLE_MIN_SS_AGE_SEC

\* StorageWiggler::addServer; its ASSERT throws when the id already has a handle
addServer(serverId, metadata) ==
  /\ IF serverId \in pq_handles
       THEN /\ lastCall' = [NoCall EXCEPT !.op = "addServer", !.threw = TRUE]
            /\ UNCHANGED <<wiggle_pq, pq_handles, queued, nextSeq>>
       ELSE /\ wiggle_pq' = wiggle_pq \cup {<<metadata, serverId>>}
            /\ pq_handles' = pq_handles \cup {serverId}
            /\ lastCall' = [NoCall EXCEPT !.op = "addServer"]
            /\ queued' = wiggle_pq'
            /\ nextSeq' = <<>>
  /\ UNCHANGED now
  /\ UNCHANGED <<auditVars, resumeVars, snapVars, supVars, walkVars, busVars>>

\* StorageWiggler::removeServer
removeServer(serverId) ==
  /\ IF serverId \in pq_handles       \* contains(serverId)
       THEN /\ pq_handles' = pq_handles \ {serverId}
            /\ wiggle_pq' = wiggle_pq \ {Node(serverId)}
            /\ queued' = wiggle_pq'
            /\ nextSeq' = <<>>
       ELSE UNCHANGED <<wiggle_pq, pq_handles, queued, nextSeq>>
  /\ lastCall' = [NoCall EXCEPT !.op = "removeServer"]
  /\ UNCHANGED now
  /\ UNCHANGED <<auditVars, resumeVars, snapVars, supVars, walkVars, busVars>>

\* StorageWiggler::updateMetadata; pq_handles.at throws for an id without a handle
updateMetadata(serverId, metadata) ==
  /\ IF serverId \notin pq_handles
       THEN /\ lastCall' = [NoCall EXCEPT !.op = "updateMetadata", !.threw = TRUE]
            /\ UNCHANGED <<wiggle_pq, queued, nextSeq>>
       ELSE /\ lastCall' = [NoCall EXCEPT !.op = "updateMetadata"]
            /\ IF Node(serverId)[1] = metadata
                 THEN UNCHANGED <<wiggle_pq, queued, nextSeq>>
                 ELSE /\ wiggle_pq' = (wiggle_pq \ {Node(serverId)}) \cup {<<metadata, serverId>>}
                      /\ queued' = wiggle_pq'
                      /\ nextSeq' = <<>>
  /\ UNCHANGED <<pq_handles, now>>
  /\ UNCHANGED <<auditVars, resumeVars, snapVars, supVars, walkVars, busVars>>

\* (mutation) the popped server keeps its handle
getNextServerId_KeepsHandle(necessaryOnly) ==
  /\ IF wiggle_pq # {}
       THEN \E top \in Tops :
              IF necessaryOnly /\ ~necessary(top[1])
                THEN /\ lastCall' = [NoCall EXCEPT !.op = "getNextServerId",
                                                   !.necessaryOnly = necessaryOnly]
                     /\ UNCHANGED <<wiggle_pq, nextSeq>>
                ELSE /\ wiggle_pq' = wiggle_pq \ {top}
                     /\ nextSeq' = Append(nextSeq, top)
                     /\ lastCall' = [NoCall EXCEPT !.op = "getNextServerId",
                                                   !.necessaryOnly = necessaryOnly,
                                                   !.result = top[2]]
       ELSE /\ lastCall' = [NoCall EXCEPT !.op = "getNextServerId",
                                          !.necessaryOnly = necessaryOnly]
            /\ UNCHANGED <<wiggle_pq, nextSeq>>
  /\ UNCHANGED <<pq_handles, now, queued>>
  /\ UNCHANGED <<auditVars, resumeVars, snapVars, supVars, walkVars, busVars>>

\* (mutation) the top is returned but left in the heap
getNextServerId_NoPop(necessaryOnly) ==
  /\ IF wiggle_pq # {}
       THEN \E top \in Tops :
              IF necessaryOnly /\ ~necessary(top[1])
                THEN /\ lastCall' = [NoCall EXCEPT !.op = "getNextServerId",
                                                   !.necessaryOnly = necessaryOnly]
                     /\ UNCHANGED <<pq_handles, nextSeq>>
                ELSE /\ pq_handles' = pq_handles \ {top[2]}
                     /\ nextSeq' = Append(nextSeq, top)
                     /\ lastCall' = [NoCall EXCEPT !.op = "getNextServerId",
                                                   !.necessaryOnly = necessaryOnly,
                                                   !.result = top[2]]
       ELSE /\ lastCall' = [NoCall EXCEPT !.op = "getNextServerId",
                                          !.necessaryOnly = necessaryOnly]
            /\ UNCHANGED <<pq_handles, nextSeq>>
  /\ UNCHANGED <<wiggle_pq, now, queued>>
  /\ UNCHANGED <<auditVars, resumeVars, snapVars, supVars, walkVars, busVars>>

\* StorageWiggler::getNextServerId
getNextServerId(necessaryOnly) ==
  /\ IF wiggle_pq # {}
       THEN \E top \in Tops :
              IF necessaryOnly /\ ~necessary(top[1])
                THEN /\ lastCall' = [NoCall EXCEPT !.op = "getNextServerId",
                                                   !.necessaryOnly = necessaryOnly]
                     /\ UNCHANGED <<wiggle_pq, pq_handles, nextSeq>>
                ELSE /\ wiggle_pq' = wiggle_pq \ {top}
                     /\ pq_handles' = pq_handles \ {top[2]}
                     /\ nextSeq' = Append(nextSeq, top)
                     /\ lastCall' = [NoCall EXCEPT !.op = "getNextServerId",
                                                   !.necessaryOnly = necessaryOnly,
                                                   !.result = top[2]]
       ELSE /\ lastCall' = [NoCall EXCEPT !.op = "getNextServerId",
                                          !.necessaryOnly = necessaryOnly]
            /\ UNCHANGED <<wiggle_pq, pq_handles, nextSeq>>
  /\ UNCHANGED <<now, queued>>
  /\ UNCHANGED <<auditVars, resumeVars, snapVars, supVars, walkVars, busVars>>

\* Time passes
Tick ==
  /\ now < MaxNow
  /\ now' = now + 1
  /\ UNCHANGED <<wiggle_pq, pq_handles, lastCall, queued, nextSeq>>
  /\ UNCHANGED <<auditVars, resumeVars, snapVars, supVars, walkVars, busVars>>

\* ------------------------------------------------ resumption of relocations

allKeys == <<0, MaxKey>>
anonymousShardId == 666666                         \* the id of a move that has no data-move metadata
SIZE_MAX == 2147483647                             \* stands for the largest size_t

\* DDShardInfo(key): the end sentinel
EndShard == [key |-> MaxKey, primarySrc |-> 0, remoteSrc |-> 0, hasDest |-> FALSE,
             destId |-> anonymousShardId]

\* the DDShardInfo values a shard that begins at key k is drawn from
\* (primarySrc and remoteSrc are the sizes of the two source teams)
ShardInfos(k, usableRegions) ==
  { [key |-> k, primarySrc |-> d[1], remoteSrc |-> IF usableRegions > 1 THEN 1 ELSE 0,
     hasDest |-> d[2], destId |-> d[3]] :
      d \in { <<1, FALSE, anonymousShardId>>, <<1, TRUE, anonymousShardId>>,
              <<1, TRUE, 1>>, <<2, FALSE, anonymousShardId>> } }

RECURSIVE ShardListsFrom(_, _)
\* the shard lists over keys k..MaxKey: increasing keys, the sentinel last
ShardListsFrom(k, usableRegions) ==
  IF k >= MaxKey THEN { <<EndShard>> }
  ELSE ShardListsFrom(k + 1, usableRegions) \cup
       { <<s>> \o rest : s \in ShardInfos(k, usableRegions),
                         rest \in ShardListsFrom(k + 1, usableRegions) }

\* the user range configurations: the whole key space in pieces, each with its
\* replicationFactor.orDefault(0)
UserRangeConfigs ==
  { << [begin |-> 0, replicationFactor |-> 0] >>,
    << [begin |-> 0, replicationFactor |-> 2] >>,
    << [begin |-> 0, replicationFactor |-> 0], [begin |-> 1, replicationFactor |-> 2] >>,
    << [begin |-> 0, replicationFactor |-> 2], [begin |-> 1, replicationFactor |-> 0] >> }

Configurations ==
  { c \in [usableRegions : 1..2, storageTeamSize : {1},
           SHARD_ENCODE_LOCATION_METADATA : BOOLEAN, ENABLE_DD_PHYSICAL_SHARD : BOOLEAN,
           ddLargeTeamEnabled : BOOLEAN] :
      c.ENABLE_DD_PHYSICAL_SHARD => c.SHARD_ENCODE_LOCATION_METADATA }

\* a default-constructed DataMove: what dataMoveMap holds where no move was inserted
NoDataMove == [meta |-> [id |-> 0, ranges |-> <<>>], valid |-> FALSE, cancelled |-> FALSE]

\* the DataMove values of id that the map entry of range r is drawn from: the
\* first of meta.ranges is the entry's range, a second one lies after it
DataMoves(r, id) ==
  { [meta |-> [id |-> id, ranges |-> rs], valid |-> vc[1], cancelled |-> vc[2]] :
      rs \in { <<>>, <<r>> } \cup (IF r[2] < MaxKey THEN { <<r, <<r[2], MaxKey>>>> } ELSE {}),
      vc \in { <<TRUE, FALSE>>, <<TRUE, TRUE>>, <<FALSE, FALSE>> } }

\* dataMoveMap.ranges(): the key space in one piece or cut at key 1
DataMoveMaps ==
  { << <<allKeys, dm>> >> : dm \in DataMoves(allKeys, 1) \cup {NoDataMove} } \cup
  { << << <<0, 1>>, dm1 >>, << <<1, MaxKey>>, dm2 >> >> :
      dm1 \in {NoDataMove} \cup
               { d \in DataMoves(<<0, 1>>, 1) : d.valid /\ d.meta.ranges = << <<0, 1>> >> },
      dm2 \in { d \in DataMoves(<<1, MaxKey>>, 2) :
                 d.valid /\ d.meta.ranges = << <<1, MaxKey>> >> } } \cup
  { << << <<0, 1>>, dm1 >>, << <<1, MaxKey>>, NoDataMove >> >> :
      dm1 \in { d \in DataMoves(<<0, 1>>, 1) : d.valid /\ Len(d.meta.ranges) = 2 } }

\* RelocateShard(keys, reason, RelocateReason::OTHER): the constructor leaves
\* dataMoveId anonymous, cancelled false and dataMove (restore) unset, and
\* derives the priority from the reason
RelocateShard(keys, reason) ==
  [keys |-> keys, reason |-> reason, dataMoveId |-> anonymousShardId,
   cancelled |-> FALSE, restore |-> FALSE]

\* shards.size() - 1 in size_t: wraps when the list has no entry
LoopBound(size) == IF size > 0 THEN size - 1 ELSE SIZE_MAX

\* customBoundaries: range.begin of every user range
customBoundaries == [i \in 1..Len(userRangeConfig) |-> userRangeConfig[i].begin]

RECURSIVE SkipBoundaries(_, _)
\* the first while loop: skip the boundaries at or before beginKey
SkipBoundaries(cb, beginKey) ==
  IF cb < Len(customBoundaries) /\ customBoundaries[cb + 1] <= beginKey
  THEN SkipBoundaries(cb + 1, beginKey)
  ELSE cb

RECURSIVE SplitRanges_KeepsBegin(_, _, _)
SplitRanges_KeepsBegin(cb, beginKey, endKey) ==
  IF cb < Len(customBoundaries) /\ customBoundaries[cb + 1] < endKey
  THEN LET rest == SplitRanges_KeepsBegin(cb + 1, beginKey, endKey)
       IN [ranges |-> << <<beginKey, customBoundaries[cb + 1]>> >> \o rest.ranges,
           customBoundary |-> rest.customBoundary]
  ELSE [ranges |-> << <<beginKey, endKey>> >>, customBoundary |-> cb]

RECURSIVE SplitRanges(_, _, _)
\* the second while loop and the push_back after it: cut at every boundary before endKey
SplitRanges(cb, beginKey, endKey) ==
  IF cb < Len(customBoundaries) /\ customBoundaries[cb + 1] < endKey
  THEN LET rest == SplitRanges(cb + 1, customBoundaries[cb + 1], endKey)
       IN [ranges |-> << <<beginKey, customBoundaries[cb + 1]>> >> \o rest.ranges,
           customBoundary |-> rest.customBoundary]
  ELSE [ranges |-> << <<beginKey, endKey>> >>, customBoundary |-> cb]

\* userRangeConfig->rangeContaining(k)
rangeContaining(k) ==
  LET below == { i \in 1..Len(userRangeConfig) : userRangeConfig[i].begin <= k }
  IN IF below = {} THEN userRangeConfig[1]
     ELSE userRangeConfig[CHOOSE i \in below : \A j \in below : j <= i]

Max(a, b) == IF a >= b THEN a ELSE b

ShouldRelocate_NoSplit(iShard, unhealthy, r) ==
  \/ configuration.ddLargeTeamEnabled /\ unhealthy
  \/ iShard.hasDest /\ iShard.destId = anonymousShardId

ShouldRelocate_DestOnly(iShard, unhealthy, r) ==
  \/ configuration.ddLargeTeamEnabled /\ (unhealthy \/ r > 0)
  \/ iShard.hasDest

\* the emission test of one sub-range
ShouldRelocate(iShard, unhealthy, r) ==
  \/ configuration.ddLargeTeamEnabled /\ (unhealthy \/ r > 0)
  \/ iShard.hasDest /\ iShard.destId = anonymousShardId

RECURSIVE ForRanges_CountAll(_, _, _, _)
ForRanges_CountAll(iShard, ranges, r, count) ==
  IF r >= Len(ranges) THEN [sent |-> <<>>, overreplicatedCount |-> count]
  ELSE
    LET keys == ranges[r + 1]
        customReplicas == Max(configuration.storageTeamSize,
                              rangeContaining(keys[1]).replicationFactor)
        unhealthy1 == \/ iShard.primarySrc # customReplicas
                      \/ configuration.usableRegions > 1 /\ iShard.remoteSrc # customReplicas
        counted == iShard.primarySrc > configuration.storageTeamSize
        count1 == IF counted THEN count + 1 ELSE count
        unhealthy == unhealthy1 \/ (counted /\ count1 > DD_MAX_SHARDS_ON_LARGE_TEAMS)
        reason == IF unhealthy THEN "TEAM_UNHEALTHY"
                  ELSE IF r > 0 THEN "SPLIT_SHARD" ELSE "RECOVER_MOVE"
        rest == ForRanges_CountAll(iShard, ranges, r + 1, count1)
    IN [sent |-> (IF ShouldRelocate(iShard, unhealthy, r)
                  THEN <<RelocateShard(keys, reason)>> ELSE <<>>) \o rest.sent,
        overreplicatedCount |-> rest.overreplicatedCount]

RECURSIVE ForRanges(_, _, _, _)
\* the loop over ranges[r..]: what it sends and the overreplicated count it leaves
ForRanges(iShard, ranges, r, count) ==
  IF r >= Len(ranges) THEN [sent |-> <<>>, overreplicatedCount |-> count]
  ELSE
    LET keys == ranges[r + 1]
        customReplicas == Max(configuration.storageTeamSize,
                              rangeContaining(keys[1]).replicationFactor)
        unhealthy1 == \/ iShard.primarySrc # customReplicas
                      \/ configuration.usableRegions > 1 /\ iShard.remoteSrc # customReplicas
        counted == ~unhealthy1 /\ iShard.primarySrc > configuration.storageTeamSize
        count1 == IF counted THEN count + 1 ELSE count
        unhealthy == unhealthy1 \/ (counted /\ count1 > DD_MAX_SHARDS_ON_LARGE_TEAMS)
        reason == IF unhealthy THEN "TEAM_UNHEALTHY"
                  ELSE IF r > 0 THEN "SPLIT_SHARD" ELSE "RECOVER_MOVE"
        rest == ForRanges(iShard, ranges, r + 1, count1)
    IN [sent |-> (IF ShouldRelocate(iShard, unhealthy, r)
                  THEN <<RelocateShard(keys, reason)>> ELSE <<>>) \o rest.sent,
        overreplicatedCount |-> rest.overreplicatedCount]

\* one iteration of resumeFromShards' loop on iShard and the next entry's key
ShardBody(iShard, endKey) ==
  LET cb == SkipBoundaries(customBoundary, iShard.key)
      split == SplitRanges(cb, iShard.key, endKey)
      out == ForRanges(iShard, split.ranges, 0, overreplicatedCount)
  IN /\ customBoundary' = split.customBoundary
     /\ overreplicatedCount' = out.overreplicatedCount
     /\ relocationProducer' = relocationProducer \o out.sent
     /\ shard' = shard + 1

\* resumeRelocations: resumeFromShards up to its loop, the physical shard
\* initialisation included
StartResume ==
  /\ resumePc = "idle"
  /\ IF configuration.SHARD_ENCODE_LOCATION_METADATA /\ configuration.ENABLE_DD_PHYSICAL_SHARD
     THEN IF Len(shards) = 0
          THEN \* 0 < size() - 1 holds: shards[0] and shards[1] are read past the end
               /\ shardReads' = {0, 1}
               /\ resumePc' \in {"shards", "crashed"}
          ELSE /\ shardReads' = IF Len(shards) > 1 THEN 0..(Len(shards) - 1) ELSE {}
               /\ resumePc' = "shards"
     ELSE /\ shardReads' = shardReads
          /\ resumePc' = "shards"
  /\ UNCHANGED <<shards, dataMoveMap, userRangeConfig, configuration, shard, customBoundary,
                 overreplicatedCount, it, relocationProducer>>
  /\ UNCHANGED <<auditVars, wigglerVars, snapVars, supVars, walkVars, busVars>>
  /\ UNCHANGED relocationConsumer

\* one iteration of resumeFromShards' loop, up to its yield
ResumeShard ==
  /\ resumePc = "shards"
  /\ shard < LoopBound(Len(shards))
  /\ Len(shards) > 0
  /\ shardReads' = shardReads \cup {shard, shard + 1}
  /\ ShardBody(shards[shard + 1], shards[shard + 2].key)
  /\ UNCHANGED <<shards, dataMoveMap, userRangeConfig, configuration, resumePc, it>>
  /\ UNCHANGED <<auditVars, wigglerVars, snapVars, supVars, walkVars, busVars>>
  /\ UNCHANGED relocationConsumer

\* an iteration on an empty list: shards[shard] and shards[shard + 1] lie past
\* the end, so the iteration works on whatever the read yields, or the process dies
ResumeShardPastEnd ==
  /\ resumePc = "shards"
  /\ shard < LoopBound(Len(shards))
  /\ Len(shards) = 0
  /\ shardReads' = shardReads \cup {shard, shard + 1}
  /\ \/ /\ shard < MaxRead
        /\ \E k \in 0..MaxKey, endKey \in 0..MaxKey :
             \E iShard \in ShardInfos(k, configuration.usableRegions) :
               ShardBody(iShard, endKey)
        /\ UNCHANGED resumePc
     \/ /\ resumePc' = "crashed"
        /\ UNCHANGED <<shard, customBoundary, overreplicatedCount, relocationProducer>>
  /\ UNCHANGED <<shards, dataMoveMap, userRangeConfig, configuration, it>>
  /\ UNCHANGED <<auditVars, wigglerVars, snapVars, supVars, walkVars, busVars>>
  /\ UNCHANGED relocationConsumer

\* resumeFromShards returns: readyToStart fires
ShardsReady ==
  /\ resumePc = "shards"
  /\ ~(shard < LoopBound(Len(shards)))
  /\ resumePc' = "dataMoves"
  /\ UNCHANGED <<shards, dataMoveMap, userRangeConfig, configuration, shard, customBoundary,
                 overreplicatedCount, it, shardReads, relocationProducer>>
  /\ UNCHANGED <<auditVars, wigglerVars, snapVars, supVars, walkVars, busVars>>
  /\ UNCHANGED relocationConsumer

\* what resumeFromDataMoves sends for one map entry; "assert" when its ASSERT fails
DataMoveBody_RestoreAnonymous(range, dm) ==
  IF dm.meta.ranges = <<>> THEN <<>>
  ELSE IF dm.cancelled \/ (dm.valid /\ ~configuration.SHARD_ENCODE_LOCATION_METADATA)
  THEN <<[RelocateShard(dm.meta.ranges[1], "RECOVER_MOVE") EXCEPT
            !.dataMoveId = dm.meta.id, !.cancelled = TRUE]>>
  ELSE IF dm.valid
  THEN <<[RelocateShard(dm.meta.ranges[1], "RECOVER_MOVE") EXCEPT !.restore = TRUE]>>
  ELSE <<>>

DataMoveBody_CancelOnlyIfCancelled(range, dm) ==
  IF dm.meta.ranges = <<>> THEN <<>>
  ELSE IF dm.cancelled
  THEN <<[RelocateShard(dm.meta.ranges[1], "RECOVER_MOVE") EXCEPT
            !.dataMoveId = dm.meta.id, !.cancelled = TRUE]>>
  ELSE IF dm.valid
  THEN <<[RelocateShard(dm.meta.ranges[1], "RECOVER_MOVE") EXCEPT
            !.dataMoveId = dm.meta.id, !.restore = TRUE]>>
  ELSE <<>>

DataMoveBody(range, dm) ==
  IF dm.meta.ranges = <<>> THEN <<>>
  ELSE IF dm.cancelled \/ (dm.valid /\ ~configuration.SHARD_ENCODE_LOCATION_METADATA)
  THEN <<[RelocateShard(dm.meta.ranges[1], "RECOVER_MOVE") EXCEPT
            !.dataMoveId = dm.meta.id, !.cancelled = TRUE]>>
  ELSE IF dm.valid
  THEN <<[RelocateShard(dm.meta.ranges[1], "RECOVER_MOVE") EXCEPT
            !.dataMoveId = dm.meta.id, !.restore = TRUE]>>
  ELSE <<>>

\* the ASSERT of the restore branch
RestoreAssertFails(range, dm) ==
  /\ dm.meta.ranges # <<>>
  /\ ~(dm.cancelled \/ (dm.valid /\ ~configuration.SHARD_ENCODE_LOCATION_METADATA))
  /\ dm.valid
  /\ dm.meta.ranges[1] # range

\* one iteration of resumeFromDataMoves' loop
ResumeDataMove ==
  /\ resumePc = "dataMoves"
  /\ it < Len(dataMoveMap)
  /\ LET range == dataMoveMap[it + 1][1]
         dm == dataMoveMap[it + 1][2]
     IN IF RestoreAssertFails(range, dm)
        THEN /\ resumePc' = "error"
             /\ UNCHANGED <<it, relocationProducer>>
        ELSE /\ relocationProducer' = relocationProducer \o DataMoveBody(range, dm)
             /\ it' = it + 1
             /\ UNCHANGED resumePc
  /\ UNCHANGED <<shards, dataMoveMap, userRangeConfig, configuration, shard, customBoundary,
                 overreplicatedCount, shardReads>>
  /\ UNCHANGED <<auditVars, wigglerVars, snapVars, supVars, walkVars, busVars>>
  /\ UNCHANGED relocationConsumer

\* the loop is over: the tombstone cleanup is handed to addActor and the actor returns
DataMovesDone ==
  /\ resumePc = "dataMoves"
  /\ it = Len(dataMoveMap)
  /\ resumePc' = "done"
  /\ UNCHANGED <<shards, dataMoveMap, userRangeConfig, configuration, shard, customBoundary,
                 overreplicatedCount, it, shardReads, relocationProducer>>
  /\ UNCHANGED <<auditVars, wigglerVars, snapVars, supVars, walkVars, busVars>>
  /\ UNCHANGED relocationConsumer

yieldPromiseStream_Newest ==
  /\ resumePc = "done"
  /\ Len(relocationConsumer) < Len(relocationProducer)
  /\ relocationConsumer' = Append(relocationConsumer, relocationProducer[Len(relocationProducer)])
  /\ UNCHANGED <<shards, dataMoveMap, userRangeConfig, configuration, resumePc, shard,
                 customBoundary, overreplicatedCount, it, shardReads, relocationProducer>>
  /\ UNCHANGED <<auditVars, wigglerVars, snapVars, supVars, walkVars, busVars>>

\* yieldPromiseStream(relocationProducer.getFuture(), relocationConsumer), started
\* once resumeRelocations has returned: the oldest value not yet passed on is
\* sent to relocationConsumer, then the actor yields
yieldPromiseStream ==
  /\ resumePc = "done"
  /\ Len(relocationConsumer) < Len(relocationProducer)
  /\ relocationConsumer' = Append(relocationConsumer,
                                  relocationProducer[Len(relocationConsumer) + 1])
  /\ UNCHANGED <<shards, dataMoveMap, userRangeConfig, configuration, resumePc, shard,
                 customBoundary, overreplicatedCount, it, shardReads, relocationProducer>>
  /\ UNCHANGED <<auditVars, wigglerVars, snapVars, supVars, walkVars, busVars>>

\* ------------------------------------------------------ snapshot requests

Uids == 1..MaxUid
Payloads == {"P", "Q"}
TLogs == 1..MaxTLogs                               \* logSystemConfig.allLocalLogs(false)
NoRequest == 0                                     \* ddSnapReqMap has no entry for the uid
NoOwner == 0                                       \* DDEnabledState is not owned
BlobRestoreRequester == 9                          \* a PrepareBlobRestoreRequest's requesterID

\* the errors for which ddSnapCreateCore's catch block enables the tlog pops again
PopReenabledErrors == {"snap_storage_failed", "snap_tlog_failed", "operation_cancelled",
                       "snap_disable_tlog_pop_failed"}

\* positions of ddSnapCreateCore: its awaited step
CorePcs == {"writeFlag", "disablePop", "getWorkers", "storage", "tlog", "enablePop", "coord",
            "clearFlag", "recovering"}
\* positions inside its try block
TryPcs == CorePcs \ {"writeFlag", "recovering"}

\* a ddSnapCreate that is not running: no request of the uid was received, or its
\* result has expired
NoSnap == [pc |-> "idle", err |-> "", storage |-> 0, storageFaultTolerance |-> 0, coords |-> 0,
           failed |-> 0, disablePops |-> {}, enablePops |-> {}, recoveryPops |-> {},
           snapRpcs |-> {}]

Min(a, b) == IF a <= b THEN a ELSE b

waitForMost_Strict(failed, faultTolerance) == failed < faultTolerance

\* waitForMost(futures, faultTolerance, e): TRUE when it returns, FALSE when it throws e
waitForMost(failed, faultTolerance) == failed <= faultTolerance

\* std::min<int>(std::max<int>(0, coordSnapReqs.size() / 2 - 1), MAX_COORDINATOR_SNAPSHOT_FAULT_TOLERANCE)
coordFaultTolerance(n) ==
  Min(Max(0, (n \div 2) - 1), MAX_COORDINATOR_SNAPSHOT_FAULT_TOLERANCE)

\* DDEnabledState::trySetSnapshot: only from the enabled state
trySetSnapshot == ddEnabledState.mode = "enabled"

Enabled == [mode |-> "enabled", owner |-> NoOwner]

\* the core without what its last awaited phase saw
Cleared(core) ==
  [core EXCEPT !.storage = 0, !.storageFaultTolerance = 0, !.coords = 0, !.failed = 0]

SnapFinish_ReleaseOnSuccessOnly(uid, outcome, core) ==
  /\ snapReqs' = [snapReqs EXCEPT ![ddSnapReqMap[uid]].reply = outcome]
  /\ ddSnapReqMap' = [ddSnapReqMap EXCEPT ![uid] = NoRequest]
  /\ ddSnapReqResultMap' = [ddSnapReqResultMap EXCEPT ![uid] = outcome]
  /\ ddEnabledState' = IF outcome = "ok" THEN Enabled ELSE ddEnabledState
  /\ snapCore' = [snapCore EXCEPT ![uid] = [core EXCEPT !.pc = "gap"]]

\* ddSnapCreate answers the request in ddSnapMap, erases it, records the outcome,
\* re-enables DD and returns; delayed() then starts SNAP_MINIMUM_TIME_GAP
SnapFinish(uid, outcome, core) ==
  /\ snapReqs' = [snapReqs EXCEPT ![ddSnapReqMap[uid]].reply = outcome]
  /\ ddSnapReqMap' = [ddSnapReqMap EXCEPT ![uid] = NoRequest]
  /\ ddSnapReqResultMap' = [ddSnapReqResultMap EXCEPT ![uid] = outcome]
  /\ ddEnabledState' = Enabled
  /\ snapCore' = [snapCore EXCEPT ![uid] = [core EXCEPT !.pc = "gap"]]

\* ddSnapCreateCore's try block throws e: the catch block sends the enable-pop
\* requests and waits for them, or rethrows at once
SnapFail(uid, e, core) ==
  IF e \in PopReenabledErrors
  THEN /\ snapCore' = [snapCore EXCEPT ![uid] =
                         [core EXCEPT !.pc = "recovering", !.err = e, !.recoveryPops = TLogs]]
       /\ UNCHANGED <<snapReqs, ddSnapReqMap, ddSnapReqResultMap, ddEnabledState>>
  ELSE SnapFinish(uid, e, [core EXCEPT !.err = e])

CoreCancelled_NoPops(core) == core

\* an actor's cancellation: inside the try block the catch block sends the
\* enable-pop requests; its wait then throws and is ignored
CoreCancelled(core) ==
  IF core.pc \in TryPcs THEN [core EXCEPT !.recoveryPops = TLogs] ELSE core

\* the role ends: every ddSnapCreate is cancelled, and with it its core or its delay
AllCancelled ==
  [u \in Uids |-> IF snapCore[u].pc \in CorePcs
                  THEN [Cleared(CoreCancelled(snapCore[u])) EXCEPT
                          !.pc = "cancelled", !.err = "operation_cancelled"]
                  ELSE IF snapCore[u].pc = "gap" THEN [snapCore[u] EXCEPT !.pc = "cancelled"]
                  ELSE snapCore[u]]

\* the handler's branch for a uid that is in ddSnapReqMap
DuplicateOngoing(uid, payload) ==
  IF payload = snapReqs[ddSnapReqMap[uid]].snapPayload
  THEN \* the old request is discarded, the new one takes its place
       /\ snapReqs' = Append([snapReqs EXCEPT
                                ![ddSnapReqMap[uid]].reply = "duplicate_snapshot_request"],
                             [snapUID |-> uid, snapPayload |-> payload, reply |-> ""])
       /\ ddSnapReqMap' = [ddSnapReqMap EXCEPT ![uid] = Len(snapReqs) + 1]
       /\ UNCHANGED <<distributor, ddSnapReqResultMap, ddEnabledState, snapCore, coreRuns>>
  ELSE \* the ASSERT fails: internal_error ends dataDistributor, no request is answered
       /\ distributor' = "failed"
       /\ snapReqs' = Append(snapReqs, [snapUID |-> uid, snapPayload |-> payload, reply |-> ""])
       /\ snapCore' = AllCancelled
       /\ ddEnabledState' = IF ddEnabledState.mode = "snapshot" THEN Enabled ELSE ddEnabledState
       /\ UNCHANGED <<ddSnapReqMap, ddSnapReqResultMap, coreRuns>>

FinishedDuplicate_Rerun(uid, payload) ==
  /\ snapReqs' = Append(snapReqs, [snapUID |-> uid, snapPayload |-> payload,
                                   reply |-> ddSnapReqResultMap[uid]])
  /\ snapCore' = [snapCore EXCEPT ![uid] = [NoSnap EXCEPT !.pc = "writeFlag"]]
  /\ coreRuns' = [coreRuns EXCEPT ![uid] = @ + 1]
  /\ UNCHANGED <<distributor, ddSnapReqMap, ddSnapReqResultMap, ddEnabledState>>

\* the handler's branch for a uid that is in ddSnapReqResultMap
FinishedDuplicate(uid, payload) ==
  /\ snapReqs' = Append(snapReqs, [snapUID |-> uid, snapPayload |-> payload,
                                   reply |-> ddSnapReqResultMap[uid]])
  /\ UNCHANGED <<distributor, ddSnapReqMap, ddSnapReqResultMap, ddEnabledState, snapCore,
                 coreRuns>>

StartSnapCreate_NoStateCheck(uid, payload) ==
  /\ snapReqs' = Append(snapReqs, [snapUID |-> uid, snapPayload |-> payload, reply |-> ""])
  /\ ddSnapReqMap' = [ddSnapReqMap EXCEPT ![uid] = Len(snapReqs) + 1]
  /\ ddEnabledState' = [mode |-> "snapshot", owner |-> uid]
  /\ snapCore' = [snapCore EXCEPT ![uid] = [NoSnap EXCEPT !.pc = "writeFlag"]]
  /\ coreRuns' = [coreRuns EXCEPT ![uid] = @ + 1]
  /\ UNCHANGED <<distributor, ddSnapReqResultMap>>

\* the handler's last branch: the request enters ddSnapReqMap and ddSnapCreate
\* runs up to its first wait
StartSnapCreate(uid, payload) ==
  IF trySetSnapshot
  THEN /\ snapReqs' = Append(snapReqs, [snapUID |-> uid, snapPayload |-> payload, reply |-> ""])
       /\ ddSnapReqMap' = [ddSnapReqMap EXCEPT ![uid] = Len(snapReqs) + 1]
       /\ ddEnabledState' = [mode |-> "snapshot", owner |-> uid]
       /\ snapCore' = [snapCore EXCEPT ![uid] = [NoSnap EXCEPT !.pc = "writeFlag"]]
       /\ coreRuns' = [coreRuns EXCEPT ![uid] = @ + 1]
       /\ UNCHANGED <<distributor, ddSnapReqResultMap>>
  ELSE /\ snapReqs' = Append(snapReqs, [snapUID |-> uid, snapPayload |-> payload,
                                        reply |-> "operation_failed"])
       /\ ddSnapReqResultMap' = [ddSnapReqResultMap EXCEPT ![uid] = "operation_failed"]
       /\ snapCore' = [snapCore EXCEPT ![uid] =
                         [NoSnap EXCEPT !.pc = "gap", !.err = "operation_failed"]]
       /\ UNCHANGED <<distributor, ddSnapReqMap, ddEnabledState, coreRuns>>

\* dataDistributor receives a DistributorSnapRequest
DistributorSnap(uid, payload) ==
  /\ distributor = "running"
  /\ Len(snapReqs) < MaxSnapReq
  /\ IF ddSnapReqResultMap[uid] # "none" THEN FinishedDuplicate(uid, payload)
     ELSE IF ddSnapReqMap[uid] # NoRequest THEN DuplicateOngoing(uid, payload)
     ELSE StartSnapCreate(uid, payload)
  /\ UNCHANGED writeRecoveryKey
  /\ UNCHANGED <<auditVars, wigglerVars, resumeVars, supVars, walkVars, busVars>>

\* the write-recovery flag is committed; the disable-pop requests go out
WriteFlagCommitted(uid) ==
  /\ distributor = "running"
  /\ snapCore[uid].pc = "writeFlag"
  /\ writeRecoveryKey' = TRUE
  /\ snapCore' = [snapCore EXCEPT ![uid] = [@ EXCEPT !.pc = "disablePop", !.disablePops = TLogs]]
  /\ UNCHANGED <<distributor, ddSnapReqMap, ddSnapReqResultMap, ddEnabledState, snapReqs>>
  /\ UNCHANGED <<auditVars, wigglerVars, resumeVars, supVars, walkVars, busVars>>
  /\ UNCHANGED coreRuns

\* waitForAll(disablePops) is over: the requests to the tlogs in failed came back with an error
DisablePopsDone(uid, failed) ==
  /\ distributor = "running"
  /\ snapCore[uid].pc = "disablePop"
  /\ IF failed # {}
     THEN SnapFail(uid, "snap_disable_tlog_pop_failed", snapCore[uid])
     ELSE /\ snapCore' = [snapCore EXCEPT ![uid].pc = "getWorkers"]
          /\ UNCHANGED <<snapReqs, ddSnapReqMap, ddSnapReqResultMap, ddEnabledState>>
  /\ UNCHANGED <<distributor, writeRecoveryKey>>
  /\ UNCHANGED <<auditVars, wigglerVars, resumeVars, supVars, walkVars, busVars>>
  /\ UNCHANGED coreRuns

GotStatefulWorkers_TLogsAtOnce(uid, ok, storage, tolerance) ==
  /\ distributor = "running"
  /\ snapCore[uid].pc = "getWorkers"
  /\ IF ~ok
     THEN SnapFail(uid, "snap_storage_failed", snapCore[uid])
     ELSE /\ snapCore' = [snapCore EXCEPT ![uid] =
                            [@ EXCEPT !.pc = "storage", !.storage = storage,
                                      !.storageFaultTolerance = tolerance,
                                      !.snapRpcs = @ \cup {"storage", "tlog"}]]
          /\ UNCHANGED <<snapReqs, ddSnapReqMap, ddSnapReqResultMap, ddEnabledState>>
  /\ UNCHANGED <<distributor, writeRecoveryKey>>
  /\ UNCHANGED <<auditVars, wigglerVars, resumeVars, supVars, walkVars, busVars>>
  /\ UNCHANGED coreRuns

\* getStatefulWorkers returns (or throws: ok is FALSE); the storage snapshot requests go out
GotStatefulWorkers(uid, ok, storage, tolerance) ==
  /\ distributor = "running"
  /\ snapCore[uid].pc = "getWorkers"
  /\ IF ~ok
     THEN SnapFail(uid, "snap_storage_failed", snapCore[uid])
     ELSE /\ snapCore' = [snapCore EXCEPT ![uid] =
                            [@ EXCEPT !.pc = "storage", !.storage = storage,
                                      !.storageFaultTolerance = tolerance,
                                      !.snapRpcs = @ \cup {"storage"}]]
          /\ UNCHANGED <<snapReqs, ddSnapReqMap, ddSnapReqResultMap, ddEnabledState>>
  /\ UNCHANGED <<distributor, writeRecoveryKey>>
  /\ UNCHANGED <<auditVars, wigglerVars, resumeVars, supVars, walkVars, busVars>>
  /\ UNCHANGED coreRuns

\* the storage requests are answered, failed of them with an error; the tlog
\* snapshot requests go out
StorageSnapsDone(uid, failed) ==
  /\ distributor = "running"
  /\ snapCore[uid].pc = "storage"
  /\ failed <= snapCore[uid].storage
  /\ IF ~waitForMost(failed, snapCore[uid].storageFaultTolerance)
     THEN SnapFail(uid, "snap_storage_failed", [snapCore[uid] EXCEPT !.failed = failed])
     ELSE /\ snapCore' = [snapCore EXCEPT ![uid] =
                            [@ EXCEPT !.pc = "tlog", !.failed = failed,
                                      !.snapRpcs = @ \cup {"tlog"}]]
          /\ UNCHANGED <<snapReqs, ddSnapReqMap, ddSnapReqResultMap, ddEnabledState>>
  /\ UNCHANGED <<distributor, writeRecoveryKey>>
  /\ UNCHANGED <<auditVars, wigglerVars, resumeVars, supVars, walkVars, busVars>>
  /\ UNCHANGED coreRuns

\* the tlog requests are answered; the enable-pop requests go out
TLogSnapsDone(uid, failed) ==
  /\ distributor = "running"
  /\ snapCore[uid].pc = "tlog"
  /\ IF ~waitForMost(failed, 0)
     THEN SnapFail(uid, "snap_tlog_failed", [snapCore[uid] EXCEPT !.failed = failed])
     ELSE /\ snapCore' = [snapCore EXCEPT ![uid] =
                            [@ EXCEPT !.pc = "enablePop", !.failed = failed,
                                      !.enablePops = TLogs]]
          /\ UNCHANGED <<snapReqs, ddSnapReqMap, ddSnapReqResultMap, ddEnabledState>>
  /\ UNCHANGED <<distributor, writeRecoveryKey>>
  /\ UNCHANGED <<auditVars, wigglerVars, resumeVars, supVars, walkVars, busVars>>
  /\ UNCHANGED coreRuns

\* waitForAll(enablePops) is over; the coordinator snapshot requests go out
EnablePopsDone(uid, failed, coords) ==
  /\ distributor = "running"
  /\ snapCore[uid].pc = "enablePop"
  /\ IF failed # {}
     THEN SnapFail(uid, "snap_enable_tlog_pop_failed", Cleared(snapCore[uid]))
     ELSE /\ snapCore' = [snapCore EXCEPT ![uid] =
                            [@ EXCEPT !.pc = "coord", !.coords = coords, !.failed = 0,
                                      !.snapRpcs = @ \cup {"coord"}]]
          /\ UNCHANGED <<snapReqs, ddSnapReqMap, ddSnapReqResultMap, ddEnabledState>>
  /\ UNCHANGED <<distributor, writeRecoveryKey>>
  /\ UNCHANGED <<auditVars, wigglerVars, resumeVars, supVars, walkVars, busVars>>
  /\ UNCHANGED coreRuns

\* the coordinator requests are answered
CoordSnapsDone(uid, failed) ==
  /\ distributor = "running"
  /\ snapCore[uid].pc = "coord"
  /\ failed <= snapCore[uid].coords
  /\ IF ~waitForMost(failed, coordFaultTolerance(snapCore[uid].coords))
     THEN SnapFail(uid, "snap_coord_failed", [snapCore[uid] EXCEPT !.failed = failed])
     ELSE /\ snapCore' = [snapCore EXCEPT ![uid] = [@ EXCEPT !.pc = "clearFlag",
                                                             !.failed = failed]]
          /\ UNCHANGED <<snapReqs, ddSnapReqMap, ddSnapReqResultMap, ddEnabledState>>
  /\ UNCHANGED <<distributor, writeRecoveryKey>>
  /\ UNCHANGED <<auditVars, wigglerVars, resumeVars, supVars, walkVars, busVars>>
  /\ UNCHANGED coreRuns

\* the flag is cleared, ddSnapCreateCore returns and ddSnapCreate reports success
ClearFlagCommitted(uid) ==
  /\ distributor = "running"
  /\ snapCore[uid].pc = "clearFlag"
  /\ writeRecoveryKey' = FALSE
  /\ SnapFinish(uid, "ok", Cleared(snapCore[uid]))
  /\ UNCHANGED <<distributor>>
  /\ UNCHANGED <<auditVars, wigglerVars, resumeVars, supVars, walkVars, busVars>>
  /\ UNCHANGED coreRuns

\* the catch block's enable-pop requests are answered, whatever the answers:
\* the caught error is rethrown and ddSnapCreate reports it
RecoveryDone(uid, failed) ==
  /\ distributor = "running"
  /\ snapCore[uid].pc = "recovering"
  /\ SnapFinish(uid, snapCore[uid].err, Cleared(snapCore[uid]))
  /\ UNCHANGED <<distributor, writeRecoveryKey>>
  /\ UNCHANGED <<auditVars, wigglerVars, resumeVars, supVars, walkVars, busVars>>
  /\ UNCHANGED coreRuns

\* ddSnapCreate's choose is won by the dbInfo change or by SNAP_CREATE_MAX_TIMEOUT:
\* the core is cancelled, then the error is reported
SnapInterrupted(uid, e) ==
  /\ distributor = "running"
  /\ snapCore[uid].pc \in CorePcs
  /\ SnapFinish(uid, e, [Cleared(CoreCancelled(snapCore[uid])) EXCEPT !.err = e])
  /\ UNCHANGED <<distributor, writeRecoveryKey>>
  /\ UNCHANGED <<auditVars, wigglerVars, resumeVars, supVars, walkVars, busVars>>
  /\ UNCHANGED coreRuns

\* SNAP_MINIMUM_TIME_GAP after ddSnapCreate returned: the recorded outcome is erased
SnapResultExpires(uid) ==
  /\ distributor = "running"
  /\ snapCore[uid].pc = "gap"
  /\ ddSnapReqResultMap' = [ddSnapReqResultMap EXCEPT ![uid] = "none"]
  /\ snapCore' = [snapCore EXCEPT ![uid] = NoSnap]
  /\ UNCHANGED <<distributor, ddSnapReqMap, ddEnabledState, snapReqs, writeRecoveryKey>>
  /\ UNCHANGED <<auditVars, wigglerVars, resumeVars, supVars, walkVars, busVars>>
  /\ UNCHANGED coreRuns

\* a blob restore takes DDEnabledState (trySetBlobRestorePreparing) or gives it back
PrepareBlobRestore ==
  /\ distributor = "running"
  /\ \/ /\ ddEnabledState.mode = "enabled"
        /\ ddEnabledState' = [mode |-> "blobRestore", owner |-> BlobRestoreRequester]
     \/ /\ ddEnabledState.mode = "blobRestore"
        /\ ddEnabledState' = Enabled
  /\ UNCHANGED <<distributor, ddSnapReqMap, ddSnapReqResultMap, snapCore, snapReqs,
                 writeRecoveryKey>>
  /\ UNCHANGED <<auditVars, wigglerVars, resumeVars, supVars, walkVars, busVars>>
  /\ UNCHANGED coreRuns

\* HaltDataDistributorRequest: the role ends and its actors are cancelled
HaltDataDistributor ==
  /\ distributor = "running"
  /\ distributor' = "halted"
  /\ snapCore' = AllCancelled
  /\ ddEnabledState' = IF ddEnabledState.mode = "snapshot" THEN Enabled ELSE ddEnabledState
  /\ UNCHANGED <<ddSnapReqMap, ddSnapReqResultMap, snapReqs, writeRecoveryKey>>
  /\ UNCHANGED <<auditVars, wigglerVars, resumeVars, supVars, walkVars, busVars>>
  /\ UNCHANGED coreRuns

\* ------------------------------------------ audit children: walkers, schedulers

WalkKeys == 0..(MaxAuditKey - 1)                   \* the audit's range is [0, MaxAuditKey)
ProgressPhases == {"Invalid", "Complete", "Error"}
WalkTypes == {"ValidateHA", "ValidateReplica", "ValidateLocationMetadata",
              "ValidateStorageServerShard"}
NoSchedule == [pc |-> "none", begin |-> 0, end |-> 0, cur |-> 0, readEnd |-> 0]
NoDoAudit == [pc |-> "none", end |-> 0, reply |-> ""]

\* the begins of the AuditStorageStates getAuditStateByRange (or ByServer) returns
\* for [b, e): one state per stretch of keys with one phase
StateStarts(b, e) ==
  {s \in b..(e - 1) : s = b \/ auditProgress[s - 1] # auditProgress[s]}

\* the end of the state that begins at s
StateEnd(s, e) ==
  CHOOSE t \in (s + 1)..e :
    /\ t = e \/ auditProgress[t] # auditProgress[s]
    /\ \A u \in (s + 1)..(t - 1) : auditProgress[u] = auditProgress[s]

\* loadAndDispatchAudit adds the audit's walker, which runs up to its first read
LoadAndDispatchAudit ==
  /\ walker.pc = "idle"
  /\ walker' = [pc |-> "read", begin |-> 0]
  /\ UNCHANGED <<walkType, auditProgress, rangeLocations, schedulers, doAudits, spawned,
                 dispatched, auditFlags>>
  /\ UNCHANGED <<auditVars, wigglerVars, resumeVars, snapVars, supVars, busVars>>

\* the walker's for loop over the states read for [walker.begin, e), with the
\* cursor left at next
WalkerDispatch(e, next) ==
  LET b == walker.begin
      invalid == {s \in StateStarts(b, e) : auditProgress[s] = "Invalid"}
      covering(k) == {s \in invalid : s <= k /\ k < StateEnd(s, e)}
  IN  /\ walker' = [pc |-> "delay", begin |-> next]
      /\ auditFlags' = IF \E s \in StateStarts(b, e) : auditProgress[s] = "Error"
                       THEN [auditFlags EXCEPT !.foundError = TRUE] ELSE auditFlags
      /\ spawned' = [k \in WalkKeys |-> spawned[k] + Cardinality(covering(k))]
      /\ IF walkType = "ValidateStorageServerShard"
         THEN \* makeAuditProgressOnServer: doAuditOnStorageServer on the state's range
              /\ doAudits' = [k \in WalkKeys |->
                                IF k \in invalid
                                THEN [pc |-> "running", end |-> StateEnd(k, e), reply |-> ""]
                                ELSE doAudits[k]]
              /\ dispatched' = [k \in WalkKeys |-> dispatched[k] + Cardinality(covering(k))]
              /\ UNCHANGED schedulers
         ELSE \* makeAuditProgressOnRange: scheduleAuditOnRange, which runs up to its read
              /\ schedulers' = [k \in WalkKeys |->
                                  IF k \in invalid
                                  THEN [pc |-> "read", begin |-> k, end |-> StateEnd(k, e),
                                        cur |-> k, readEnd |-> k]
                                  ELSE schedulers[k]]
              /\ UNCHANGED <<doAudits, dispatched>>

MakeAuditProgressGotStates_CursorAtFirstEnd(e) ==
  /\ walker.pc = "read"
  /\ e \in (walker.begin + 1)..MaxAuditKey
  /\ WalkerDispatch(e, StateEnd(walker.begin, e))
  /\ UNCHANGED <<walkType, auditProgress, rangeLocations>>
  /\ UNCHANGED <<auditVars, wigglerVars, resumeVars, snapVars, supVars, busVars>>

\* getAuditStateByRange / getAuditStateByServer returns the states of [begin, e):
\* begin = auditStates.back().range.end, one child per Invalid state, then delay(0.1)
MakeAuditProgressGotStates(e) ==
  /\ walker.pc = "read"
  /\ e \in (walker.begin + 1)..MaxAuditKey
  /\ WalkerDispatch(e, e)
  /\ UNCHANGED <<walkType, auditProgress, rangeLocations>>
  /\ UNCHANGED <<auditVars, wigglerVars, resumeVars, snapVars, supVars, busVars>>

\* the walker's read throws: its catch block sets anyChildAuditFailed
MakeAuditProgressReadFails ==
  /\ walker.pc = "read"
  /\ walker' = [walker EXCEPT !.pc = "failed"]
  /\ auditFlags' = [auditFlags EXCEPT !.anyChildAuditFailed = TRUE]
  /\ UNCHANGED <<walkType, auditProgress, rangeLocations, schedulers, doAudits, spawned,
                 dispatched>>
  /\ UNCHANGED <<auditVars, wigglerVars, resumeVars, snapVars, supVars, busVars>>

\* delay(0.1) is over: while (begin < range.end)
MakeAuditProgressDelayOver ==
  /\ walker.pc = "delay"
  /\ walker' = [walker EXCEPT !.pc = IF walker.begin < MaxAuditKey THEN "read" ELSE "done"]
  /\ UNCHANGED <<walkType, auditProgress, rangeLocations, schedulers, doAudits, spawned,
                 dispatched, auditFlags>>
  /\ UNCHANGED <<auditVars, wigglerVars, resumeVars, snapVars, supVars, busVars>>

\* scheduleAuditOnRange's for-loop body for rangeLocations[i], the sub-range
\* [sch.cur, sch.cur + 1), up to its delay(0.1) or its return
ScheduleAuditIteration(b, sch) ==
  IF walkType \in {"ValidateHA", "ValidateReplica"} /\ rangeLocations[sch.cur] < 2
  THEN \* "Single replica, ignore": return Void()
       /\ schedulers' = [schedulers EXCEPT ![b] = [sch EXCEPT !.pc = "done"]]
       /\ UNCHANGED <<doAudits, dispatched>>
  ELSE /\ schedulers' = [schedulers EXCEPT ![b] =
                           [sch EXCEPT !.pc = "delay", !.begin = sch.cur + 1,
                                       !.cur = sch.cur + 1]]
       /\ doAudits' = [doAudits EXCEPT ![sch.cur] =
                         [pc |-> "running", end |-> sch.cur + 1, reply |-> ""]]
       /\ dispatched' = [dispatched EXCEPT ![sch.cur] = @ + 1]

\* getSourceServerInterfacesForRange returns the sub-ranges of [begin, r)
ScheduleAuditGotLocations(b, r) ==
  /\ schedulers[b].pc = "read"
  /\ r \in (schedulers[b].begin + 1)..schedulers[b].end
  /\ ScheduleAuditIteration(b, [schedulers[b] EXCEPT !.cur = schedulers[b].begin,
                                                     !.readEnd = r])
  /\ UNCHANGED <<walkType, auditProgress, rangeLocations, walker, spawned, auditFlags>>
  /\ UNCHANGED <<auditVars, wigglerVars, resumeVars, snapVars, supVars, busVars>>

\* getSourceServerInterfacesForRange throws: the catch block sets anyChildAuditFailed
ScheduleAuditReadFails(b) ==
  /\ schedulers[b].pc = "read"
  /\ schedulers' = [schedulers EXCEPT ![b].pc = "failed"]
  /\ auditFlags' = [auditFlags EXCEPT !.anyChildAuditFailed = TRUE]
  /\ UNCHANGED <<walkType, auditProgress, rangeLocations, walker, doAudits, spawned,
                 dispatched>>
  /\ UNCHANGED <<auditVars, wigglerVars, resumeVars, snapVars, supVars, busVars>>

\* delay(0.1) is over: the next rangeLocations entry, the next read, or the end
ScheduleAuditDelayOver(b) ==
  /\ schedulers[b].pc = "delay"
  /\ IF schedulers[b].cur < schedulers[b].readEnd
     THEN ScheduleAuditIteration(b, schedulers[b])
     ELSE /\ schedulers' = [schedulers EXCEPT ![b].pc =
                              IF schedulers[b].begin < schedulers[b].end
                              THEN "read" ELSE "done"]
          /\ UNCHANGED <<doAudits, dispatched>>
  /\ UNCHANGED <<walkType, auditProgress, rangeLocations, walker, spawned, auditFlags>>
  /\ UNCHANGED <<auditVars, wigglerVars, resumeVars, snapVars, supVars, busVars>>

\* the storage server answers the request of the doAuditOnStorageServer that
\* began at k: with a reply ("ok") or with error e
DoAuditOnStorageServerReplied(k, e) ==
  /\ doAudits[k].pc = "running"
  /\ doAudits' = [doAudits EXCEPT ![k] = [@ EXCEPT !.pc = "done", !.reply = e]]
  /\ auditFlags' = IF e = "ok" THEN auditFlags ELSE doAuditOnStorageServerError(auditFlags, e)
  /\ UNCHANGED <<walkType, auditProgress, rangeLocations, walker, schedulers, spawned,
                 dispatched>>
  /\ UNCHANGED <<auditVars, wigglerVars, resumeVars, snapVars, supVars, busVars>>

\* DDAudit::cancel: actors.clear(true) cancels the children. doAuditOnStorageServer
\* rethrows actor_cancelled; the catch blocks of the walker and of
\* scheduleAuditOnRange set anyChildAuditFailed
AuditActorsCancelled ==
  LET waiting == {"read", "delay"}
  IN  /\ walker.pc # "idle"
      /\ \/ walker.pc \in waiting
         \/ \E k \in WalkKeys : schedulers[k].pc \in waiting \/ doAudits[k].pc = "running"
      /\ walker' = IF walker.pc \in waiting THEN [walker EXCEPT !.pc = "cancelled"] ELSE walker
      /\ schedulers' = [k \in WalkKeys |->
                          IF schedulers[k].pc \in waiting
                          THEN [schedulers[k] EXCEPT !.pc = "cancelled"] ELSE schedulers[k]]
      /\ doAudits' = [k \in WalkKeys |->
                        IF doAudits[k].pc = "running"
                        THEN [doAudits[k] EXCEPT !.pc = "cancelled"] ELSE doAudits[k]]
      /\ auditFlags' = IF \/ walker.pc \in waiting
                          \/ \E k \in WalkKeys : schedulers[k].pc \in waiting
                       THEN [auditFlags EXCEPT !.anyChildAuditFailed = TRUE] ELSE auditFlags
      /\ UNCHANGED <<walkType, auditProgress, rangeLocations, spawned, dispatched>>
      /\ UNCHANGED <<auditVars, wigglerVars, resumeVars, snapVars, supVars, busVars>>

\* ------------------------------------------ relocation streams across generations

\* the generation's actors fail after resumeRelocations: dataDistribution's catch
\* block tears the generation down and the loop starts the next one. The
\* PromiseStreams relocationProducer and relocationConsumer are members of
\* DataDistributor and are not assigned in the loop. yieldPromiseStream, started
\* before waitForAll(actors), has by then forwarded a first value if one was there
GenerationTornDown ==
  /\ resumePc = "done"
  /\ Len(tornDown) < MaxTeardowns
  /\ Len(relocationConsumer) < Len(relocationProducer) =>
       Len(relocationConsumer) >
         (IF tornDown = <<>> THEN 0 ELSE tornDown[Len(tornDown)].received)
  /\ tornDown' = Append(tornDown, [sent |-> Len(relocationProducer),
                                   received |-> Len(relocationConsumer)])
  /\ resumePc' = "idle"
  /\ shard' = 0
  /\ customBoundary' = 0
  /\ overreplicatedCount' = 0
  /\ it' = 0
  /\ shardReads' = {}
  /\ UNCHANGED <<shards, dataMoveMap, userRangeConfig, configuration, relocationProducer,
                 relocationConsumer>>
  /\ UNCHANGED <<auditVars, wigglerVars, snapVars, supVars, walkVars>>

\* ------------------------------------------ supervisor: dataDistribution

Requesters == {BlobRestoreRequester, BlobRestoreRequester + 1}   \* requesterIDs
NoPreparation == 0                                 \* no prepareDataMigration is running
NoFailedServer == 0                                \* removeFailedServer is not set
FailedServer == 1                                  \* the server id removeFailedServer was sent
NoInitData == [lock |-> 0, mode |-> FALSE]

\* the waits of DataDistributor::init's loop body, in program order
InitSteps == <<"waitDataDistributorEnabled", "takeMoveKeysLock", "loadDatabaseConfiguration",
               "updateReplicaKeys", "loadInitialDataDistribution">>

\* the waits of the catch block when removeFailedServer is set, in program order
RemoveFailedServerSteps == <<"getRandomHealthyTeam", "destroyTeamCollections", "clearAsync",
                             "removeKeysFromFailedServer", "removeStorageServer">>

\* the errors a generation ends with, cancellation aside
GenerationErrors == {"movekeys_conflict", "dd_config_changed", "operation_failed"}

InitPcs == {"waitEnabled", "takeLock", "loadConfig", "updateReplicaKeys", "loadInitial"}
GenerationPcs == InitPcs \cup {"startup", "running"}
CatchPcs == {"clearShards", "removeKeys", "removeServer", "checkEnabled"}

\* the snapshot state the supervisor does not touch
snapRest == <<ddSnapReqMap, ddSnapReqResultMap, snapReqs, writeRecoveryKey, coreRuns>>

\* txnProcessor->isDataDistributionEnabled: the durable DD mode
isDataDistributionEnabled == ddModeDurable

\* context->isDDEnabled(): the in-memory DDEnabledState
isDDEnabled == ddEnabledState.mode = "enabled"

\* dataDistribution ends with error e: the role's actors are cancelled, and a
\* cancelled prepareDataMigration leaves its request with a broken promise
SupervisorEnds(e, role) ==
  /\ supPc' = "ended"
  /\ thrown' = e
  /\ distributor' = role
  /\ snapCore' = AllCancelled
  /\ blobReqs' = IF blobPrep # NoPreparation
                 THEN [blobReqs EXCEPT ![blobPrep].reply = "broken_promise"] ELSE blobReqs
  /\ blobPrep' = NoPreparation
  /\ ddEnabledState' = IF ddEnabledState.mode = "snapshot" THEN Enabled ELSE ddEnabledState

\* the operator sets the durable DD mode
SetDDMode(b) ==
  /\ supPc # "ended"
  /\ ddModeDurable # b
  /\ ddModeDurable' = b
  /\ UNCHANGED <<supPc, moveKeysLock, initLog, ddInitData, genErr, thrown, removeFailedServer,
                 catchLog, teamCollections, actors, blobReqs, blobPrep, prepRuns, generations>>
  /\ UNCHANGED <<distributor, ddEnabledState, snapCore, snapRest>>
  /\ UNCHANGED <<auditVars, wigglerVars, resumeVars, walkVars, busVars>>

\* init: waitDataDistributorEnabled returns
WaitDataDistributorEnabled ==
  /\ supPc = "waitEnabled"
  /\ ddModeDurable
  /\ moveKeysLock < MaxLock
  /\ supPc' = "takeLock"
  /\ initLog' = <<"waitDataDistributorEnabled">>
  /\ UNCHANGED <<ddModeDurable, moveKeysLock, ddInitData, genErr, thrown, removeFailedServer,
                 catchLog, teamCollections, actors, blobReqs, blobPrep, prepRuns, generations>>
  /\ UNCHANGED <<distributor, ddEnabledState, snapCore, snapRest>>
  /\ UNCHANGED <<auditVars, wigglerVars, resumeVars, walkVars, busVars>>

\* init: takeMoveKeysLock returns and is stored in self->lock
InitTakeMoveKeysLock ==
  /\ supPc = "takeLock"
  /\ supPc' = "loadConfig"
  /\ moveKeysLock' = moveKeysLock + 1
  /\ initLog' = Append(initLog, "takeMoveKeysLock")
  /\ UNCHANGED <<ddModeDurable, ddInitData, genErr, thrown, removeFailedServer,
                 catchLog, teamCollections, actors, blobReqs, blobPrep, prepRuns, generations>>
  /\ UNCHANGED <<distributor, ddEnabledState, snapCore, snapRest>>
  /\ UNCHANGED <<auditVars, wigglerVars, resumeVars, walkVars, busVars>>

\* init: loadDatabaseConfiguration returns; initDcInfo
LoadDatabaseConfiguration ==
  /\ supPc = "loadConfig"
  /\ supPc' = "updateReplicaKeys"
  /\ initLog' = Append(initLog, "loadDatabaseConfiguration")
  /\ UNCHANGED <<ddModeDurable, moveKeysLock, ddInitData, genErr, thrown, removeFailedServer,
                 catchLog, teamCollections, actors, blobReqs, blobPrep, prepRuns, generations>>
  /\ UNCHANGED <<distributor, ddEnabledState, snapCore, snapRest>>
  /\ UNCHANGED <<auditVars, wigglerVars, resumeVars, walkVars, busVars>>

\* init: updateReplicaKeys returns
UpdateReplicaKeys ==
  /\ supPc = "updateReplicaKeys"
  /\ supPc' = "loadInitial"
  /\ initLog' = Append(initLog, "updateReplicaKeys")
  /\ UNCHANGED <<ddModeDurable, moveKeysLock, ddInitData, genErr, thrown, removeFailedServer,
                 catchLog, teamCollections, actors, blobReqs, blobPrep, prepRuns, generations>>
  /\ UNCHANGED <<distributor, ddEnabledState, snapCore, snapRest>>
  /\ UNCHANGED <<auditVars, wigglerVars, resumeVars, walkVars, busVars>>

InitExit_ModeOnly(mode) == mode

\* init's exit test on the loaded mode
InitExit(mode) == mode /\ isDDEnabled

\* init: loadInitialDataDistribution returns with self->lock; the loop is left
\* or starts over
InitLoadInitialDataDistribution ==
  /\ supPc = "loadInitial"
  /\ ddInitData' = [lock |-> moveKeysLock, mode |-> ddModeDurable]
  /\ initLog' = Append(initLog, "loadInitialDataDistribution")
  /\ supPc' = IF InitExit(ddModeDurable) THEN "startup" ELSE "waitEnabled"
  /\ UNCHANGED <<ddModeDurable, moveKeysLock, genErr, thrown, removeFailedServer,
                 catchLog, teamCollections, actors, blobReqs, blobPrep, prepRuns, generations>>
  /\ UNCHANGED <<distributor, ddEnabledState, snapCore, snapRest>>
  /\ UNCHANGED <<auditVars, wigglerVars, resumeVars, walkVars, busVars>>

\* the generation's components are started: resumeRelocations, the tracker, the
\* queue, the team collections, the bridge and serveBlobMigratorRequests
StartGeneration ==
  /\ supPc = "startup"
  /\ supPc' = "running"
  /\ teamCollections' = TRUE
  /\ actors' = TRUE
  /\ UNCHANGED <<ddModeDurable, moveKeysLock, initLog, ddInitData, genErr, thrown,
                 removeFailedServer, catchLog, blobReqs, blobPrep, prepRuns, generations>>
  /\ UNCHANGED <<distributor, ddEnabledState, snapCore, snapRest>>
  /\ UNCHANGED <<auditVars, wigglerVars, resumeVars, walkVars, busVars>>

\* the team collection sends the failed server's id on removeFailedServer
SignalRemoveFailedServer ==
  /\ supPc = "running"
  /\ removeFailedServer = NoFailedServer
  /\ removeFailedServer' = FailedServer
  /\ UNCHANGED <<supPc, ddModeDurable, moveKeysLock, initLog, ddInitData, genErr, thrown,
                 catchLog, teamCollections, actors, blobReqs, blobPrep, prepRuns, generations>>
  /\ UNCHANGED <<distributor, ddEnabledState, snapCore, snapRest>>
  /\ UNCHANGED <<auditVars, wigglerVars, resumeVars, walkVars, busVars>>

\* the catch block up to its first wait, for an error e other than cancellation
CatchBody(e) ==
  /\ genErr' = e
  /\ catchLog' = (IF removeFailedServer # NoFailedServer
                  THEN <<"getRandomHealthyTeam">> ELSE <<>>) \o <<"destroyTeamCollections">>
  /\ teamCollections' = FALSE
  /\ actors' = FALSE
  /\ supPc' = "clearShards"

\* the generation ends with error e, in init or later
GenerationFails(e) ==
  /\ supPc \in GenerationPcs
  /\ CatchBody(e)
  /\ UNCHANGED <<ddModeDurable, moveKeysLock, initLog, ddInitData, thrown, removeFailedServer,
                 blobReqs, blobPrep, prepRuns, generations>>
  /\ UNCHANGED <<distributor, ddEnabledState, snapCore, snapRest>>
  /\ UNCHANGED <<auditVars, wigglerVars, resumeVars, walkVars, busVars>>

\* the loop body starts over: fresh promises, init
Rebootstrap ==
  /\ supPc' = "waitEnabled"
  /\ generations' = generations + 1
  /\ removeFailedServer' = NoFailedServer
  /\ initLog' = <<>>
  /\ UNCHANGED thrown

AfterClear_RethrowAll ==
  /\ catchLog' = Append(catchLog, "clearAsync")
  /\ IF removeFailedServer # NoFailedServer
     THEN /\ supPc' = "removeKeys"
          /\ UNCHANGED <<thrown, generations, removeFailedServer, initLog>>
          /\ UNCHANGED <<distributor, ddEnabledState, snapCore, blobReqs, blobPrep>>
     ELSE /\ SupervisorEnds(genErr, "failed")
          /\ UNCHANGED <<generations, removeFailedServer, initLog>>

AfterClear_IgnoreFailedServer ==
  /\ catchLog' = Append(catchLog, "clearAsync")
  /\ IF genErr \notin {"movekeys_conflict", "dd_config_changed"}
     THEN /\ SupervisorEnds(genErr, "failed")
          /\ UNCHANGED <<generations, removeFailedServer, initLog>>
     ELSE /\ supPc' = "checkEnabled"
          /\ UNCHANGED <<thrown, generations, removeFailedServer, initLog>>
          /\ UNCHANGED <<distributor, ddEnabledState, snapCore, blobReqs, blobPrep>>

\* the catch block after shards.clearAsync()
AfterClear ==
  /\ catchLog' = Append(catchLog, "clearAsync")
  /\ IF removeFailedServer # NoFailedServer
     THEN /\ supPc' = "removeKeys"
          /\ UNCHANGED <<thrown, generations, removeFailedServer, initLog>>
          /\ UNCHANGED <<distributor, ddEnabledState, snapCore, blobReqs, blobPrep>>
     ELSE IF genErr \notin {"movekeys_conflict", "dd_config_changed"}
     THEN /\ SupervisorEnds(genErr, "failed")
          /\ UNCHANGED <<generations, removeFailedServer, initLog>>
     ELSE /\ supPc' = "checkEnabled"
          /\ UNCHANGED <<thrown, generations, removeFailedServer, initLog>>
          /\ UNCHANGED <<distributor, ddEnabledState, snapCore, blobReqs, blobPrep>>

\* shards.clearAsync() returns
ShardsCleared ==
  /\ supPc = "clearShards"
  /\ AfterClear
  /\ UNCHANGED <<ddModeDurable, moveKeysLock, ddInitData, genErr, teamCollections, actors, prepRuns>>
  /\ UNCHANGED snapRest
  /\ UNCHANGED <<auditVars, wigglerVars, resumeVars, walkVars, busVars>>

\* removeKeysFromFailedServer returns, or throws e
RemoveKeysFromFailedServerDone(e) ==
  /\ supPc = "removeKeys"
  /\ catchLog' = Append(catchLog, "removeKeysFromFailedServer")
  /\ IF e = ""
     THEN /\ supPc' = "removeServer"
          /\ UNCHANGED <<thrown, distributor, ddEnabledState, snapCore, blobReqs, blobPrep>>
     ELSE SupervisorEnds(e, "failed")
  /\ UNCHANGED <<ddModeDurable, moveKeysLock, initLog, ddInitData, genErr, removeFailedServer,
                 teamCollections, actors, prepRuns, generations>>
  /\ UNCHANGED snapRest
  /\ UNCHANGED <<auditVars, wigglerVars, resumeVars, walkVars, busVars>>

\* removeStorageServer returns, or throws e
RemoveStorageServerDone(e) ==
  /\ supPc = "removeServer"
  /\ catchLog' = Append(catchLog, "removeStorageServer")
  /\ IF e = ""
     THEN /\ generations < MaxGenerations
          /\ Rebootstrap
          /\ UNCHANGED <<distributor, ddEnabledState, snapCore, blobReqs, blobPrep>>
     ELSE /\ SupervisorEnds(e, "failed")
          /\ UNCHANGED <<generations, removeFailedServer, initLog>>
  /\ UNCHANGED <<ddModeDurable, moveKeysLock, ddInitData, genErr, teamCollections, actors, prepRuns>>
  /\ UNCHANGED snapRest
  /\ UNCHANGED <<auditVars, wigglerVars, resumeVars, walkVars, busVars>>

\* isDataDistributionEnabled returns: rethrow, or swallow and start over
CheckedEnabled ==
  /\ supPc = "checkEnabled"
  /\ IF isDataDistributionEnabled
     THEN /\ SupervisorEnds(genErr, "failed")
          /\ UNCHANGED <<generations, removeFailedServer, initLog>>
     ELSE /\ generations < MaxGenerations
          /\ Rebootstrap
          /\ UNCHANGED <<distributor, ddEnabledState, snapCore, blobReqs, blobPrep>>
  /\ UNCHANGED <<ddModeDurable, moveKeysLock, ddInitData, genErr, catchLog, teamCollections, actors,
                 prepRuns>>
  /\ UNCHANGED snapRest
  /\ UNCHANGED <<auditVars, wigglerVars, resumeVars, walkVars, busVars>>

\* dataDistribution is cancelled (the role is halted): inside the generation the
\* catch block destroys the team collections, clears the shards and rethrows
SupervisorCancelled ==
  /\ supPc \in GenerationPcs \cup CatchPcs
  /\ SupervisorEnds("actor_cancelled", "halted")
  /\ IF supPc \in GenerationPcs
     THEN /\ genErr' = "actor_cancelled"
          /\ catchLog' = (IF removeFailedServer # NoFailedServer
                          THEN <<"getRandomHealthyTeam">> ELSE <<>>)
                         \o <<"destroyTeamCollections", "clear">>
          /\ teamCollections' = FALSE
          /\ actors' = FALSE
     ELSE UNCHANGED <<genErr, catchLog, teamCollections, actors>>
  /\ UNCHANGED <<ddModeDurable, moveKeysLock, initLog, ddInitData, removeFailedServer, prepRuns,
                 generations>>
  /\ UNCHANGED snapRest
  /\ UNCHANGED <<auditVars, wigglerVars, resumeVars, walkVars, busVars>>

ConflictReason_AlwaysBlobRestore == "CONFLICT_BLOB_RESTORE"

\* the reply of a request that could not take DDEnabledState
ConflictReason ==
  IF ddEnabledState.mode = "blobRestore" THEN "CONFLICT_BLOB_RESTORE" ELSE "CONFLICT_SNAPSHOT"

\* serveBlobMigratorRequests receives a PrepareBlobRestoreRequest
ServeBlobMigratorRequest(requester, isBlobMigrator) ==
  /\ supPc = "running"
  /\ Len(blobReqs) < MaxBlobReq
  /\ LET req == [requesterID |-> requester, isBlobMigrator |-> isBlobMigrator, reply |-> ""]
     IN IF ~isBlobMigrator
        THEN /\ blobReqs' = Append(blobReqs, [req EXCEPT !.reply = "operation_failed"])
             /\ UNCHANGED <<supPc, genErr, catchLog, teamCollections, actors, blobPrep, prepRuns,
                            ddEnabledState>>
        ELSE IF ddEnabledState.owner = requester /\ ddEnabledState.mode = "blobRestore"
        THEN \* the repeated request is dropped: its reply promise is broken
             /\ blobReqs' = Append(blobReqs, [req EXCEPT !.reply = "broken_promise"])
             /\ UNCHANGED <<supPc, genErr, catchLog, teamCollections, actors, blobPrep, prepRuns,
                            ddEnabledState>>
        ELSE IF ddEnabledState.mode = "enabled"
        THEN \* trySetBlobRestorePreparing: prepareDataMigration starts, the
             \* generation ends with dd_config_changed
             /\ ddEnabledState' = [mode |-> "blobRestore", owner |-> requester]
             /\ blobReqs' = Append(blobReqs, req)
             /\ blobPrep' = Len(blobReqs) + 1
             /\ prepRuns' = [prepRuns EXCEPT ![requester] = @ + 1]
             /\ CatchBody("dd_config_changed")
        ELSE /\ blobReqs' = Append(blobReqs, [req EXCEPT !.reply = ConflictReason])
             /\ UNCHANGED <<supPc, genErr, catchLog, teamCollections, actors, blobPrep, prepRuns,
                            ddEnabledState>>
  /\ UNCHANGED <<ddModeDurable, moveKeysLock, initLog, ddInitData, thrown, removeFailedServer,
                 generations>>
  /\ UNCHANGED <<distributor, snapCore, snapRest>>
  /\ UNCHANGED <<auditVars, wigglerVars, resumeVars, walkVars, busVars>>

\* prepareDataMigration ends: it replies SUCCESS or the error e, then gives
\* DDEnabledState back
PrepareDataMigrationDone(e) ==
  /\ supPc # "ended"
  /\ blobPrep # NoPreparation
  /\ blobReqs' = [blobReqs EXCEPT ![blobPrep].reply = IF e = "" THEN "SUCCESS" ELSE e]
  /\ blobPrep' = NoPreparation
  /\ ddEnabledState' = Enabled
  /\ UNCHANGED <<supPc, ddModeDurable, moveKeysLock, initLog, ddInitData, genErr, thrown,
                 removeFailedServer, catchLog, teamCollections, actors, prepRuns, generations>>
  /\ UNCHANGED <<distributor, snapCore, snapRest>>
  /\ UNCHANGED <<auditVars, wigglerVars, resumeVars, walkVars, busVars>>

\* ------------------------------------------------------------ specification

WigglerIdle ==
  /\ wiggle_pq = {}
  /\ pq_handles = {}
  /\ now = 0
  /\ lastCall = NoCall
  /\ queued = {}
  /\ nextSeq = <<>>

AuditIdle ==
  /\ ddState = "up"
  /\ genPhase = "init"
  /\ gen = 0
  /\ lock = 0
  /\ disk = EmptyDisk
  /\ initData = EmptyDisk
  /\ audits = [k \in AuditKeys |-> NoAudit]
  /\ reqs = [q \in Reqs |-> NewReq]

\* resumeRelocations not yet called
ResumeIdle ==
  /\ resumePc = "idle"
  /\ shard = 0
  /\ customBoundary = 0
  /\ overreplicatedCount = 0
  /\ it = 0
  /\ shardReads = {}
  /\ relocationProducer = <<>>
  /\ relocationConsumer = <<>>

\* dataDistributor's maps are empty, DD is enabled, nothing was sent
SnapIdle ==
  /\ distributor = "running"
  /\ ddSnapReqMap = [u \in Uids |-> NoRequest]
  /\ ddSnapReqResultMap = [u \in Uids |-> "none"]
  /\ ddEnabledState = Enabled
  /\ snapCore = [u \in Uids |-> NoSnap]
  /\ snapReqs = <<>>
  /\ writeRecoveryKey = FALSE
  /\ coreRuns = [u \in Uids |-> 0]

\* dataDistribution enters its loop: DD is enabled durably, nothing was received
SupIdle ==
  /\ supPc = "waitEnabled"
  /\ ddModeDurable = TRUE
  /\ moveKeysLock = 0
  /\ initLog = <<>>
  /\ ddInitData = NoInitData
  /\ genErr = ""
  /\ thrown = ""
  /\ removeFailedServer = NoFailedServer
  /\ catchLog = <<>>
  /\ teamCollections = FALSE
  /\ actors = FALSE
  /\ blobReqs = <<>>
  /\ blobPrep = NoPreparation
  /\ prepRuns = [r \in Requesters |-> 0]
  /\ generations = 0

\* no audit's children run: nothing was spawned, no flag is set
WalkIdle ==
  /\ walker = [pc |-> "idle", begin |-> 0]
  /\ schedulers = [k \in WalkKeys |-> NoSchedule]
  /\ doAudits = [k \in WalkKeys |-> NoDoAudit]
  /\ spawned = [k \in WalkKeys |-> 0]
  /\ dispatched = [k \in WalkKeys |-> 0]
  /\ auditFlags = [foundError |-> FALSE, anyChildAuditFailed |-> FALSE]

\* no generation was torn down
BusIdle == tornDown = <<>>

Init ==
  /\ AuditIdle
  /\ WalkIdle
  /\ BusIdle
  /\ walkType = "ValidateHA"
  /\ auditProgress = [k \in WalkKeys |-> "Invalid"]
  /\ rangeLocations = [k \in WalkKeys |-> MaxReplicas]
  /\ WigglerIdle
  /\ ResumeIdle
  /\ SnapIdle
  /\ SupIdle
  /\ shards = <<EndShard>>
  /\ dataMoveMap = << <<allKeys, NoDataMove>> >>
  /\ userRangeConfig = << [begin |-> 0, replicationFactor |-> 0] >>
  /\ configuration = [usableRegions |-> 1, storageTeamSize |-> 1,
                      SHARD_ENCODE_LOCATION_METADATA |-> FALSE,
                      ENABLE_DD_PHYSICAL_SHARD |-> FALSE, ddLargeTeamEnabled |-> FALSE]

Next ==
  \/ \E q \in Reqs, t \in AuditTypes, r \in Ranges : TriggerAudit(q, t, r)
  \/ \E q \in Reqs : TriggerAudit(q, InvalidType, <<0, 2>>)
  \/ \E q \in Reqs : LaunchRetry(q)
  \/ \E q \in Reqs : PersistNewAuditStateOk(q)
  \/ \E q \in Reqs, e \in {"movekeys_conflict", "operation_failed"} :
       PersistNewAuditStateFail(q, e)
  \/ \E k \in AuditKeys, errs \in SUBSET {"audit_storage_error", "request_maybe_delivered"} :
       AuditChildrenDone(k, errs)
  \/ \E k \in AuditKeys : PersistFinalOk(k)
  \/ \E k \in AuditKeys, e \in {"movekeys_conflict", "operation_failed"} :
       PersistFinalFail(k, e)
  \/ \E k \in AuditKeys : RetryAfterDelay(k)
  \/ \E k \in AuditKeys : PersistFailedOk(k)
  \/ \E k \in AuditKeys : PersistFailedFail(k)
  \/ TakeMoveKeysLock
  \/ LoadInitialDataDistribution
  \/ ResumeStorageAudits
  \/ TrackerReady
  \/ GenerationEnds
  \/ Halt

Spec == Init /\ [][Next]_vars

NextWiggler ==
  \/ \E id \in Servers, m \in StorageMetadataType : addServer(id, m)
  \/ \E id \in Servers : removeServer(id)
  \/ \E id \in Servers, m \in StorageMetadataType : updateMetadata(id, m)
  \/ \E necessaryOnly \in BOOLEAN : getNextServerId(necessaryOnly)
  \/ Tick

SpecWiggler == Init /\ [][NextWiggler]_vars

\* the resumption on every initial data distribution within the bounds
InitResume ==
  /\ AuditIdle
  /\ WalkIdle
  /\ BusIdle
  /\ walkType = "ValidateHA"
  /\ auditProgress = [k \in WalkKeys |-> "Invalid"]
  /\ rangeLocations = [k \in WalkKeys |-> MaxReplicas]
  /\ WigglerIdle
  /\ ResumeIdle
  /\ SnapIdle
  /\ SupIdle
  /\ configuration \in Configurations
  /\ shards \in {<<>>} \cup ShardListsFrom(0, configuration.usableRegions)
  /\ dataMoveMap \in DataMoveMaps
  /\ userRangeConfig \in UserRangeConfigs

NextResume ==
  \/ StartResume
  \/ ResumeShard
  \/ ResumeShardPastEnd
  \/ ShardsReady
  \/ ResumeDataMove
  \/ DataMovesDone
  \/ yieldPromiseStream

SpecResume == InitResume /\ [][NextResume]_vars

NextSnap ==
  \/ \E uid \in Uids, payload \in Payloads : DistributorSnap(uid, payload)
  \/ \E uid \in Uids : WriteFlagCommitted(uid)
  \/ \E uid \in Uids, failed \in SUBSET TLogs : DisablePopsDone(uid, failed)
  \/ \E uid \in Uids, ok \in BOOLEAN, storage \in 0..MaxStorage, tolerance \in 0..1 :
       GotStatefulWorkers(uid, ok, storage, tolerance)
  \/ \E uid \in Uids, failed \in 0..MaxStorage : StorageSnapsDone(uid, failed)
  \/ \E uid \in Uids, failed \in 0..MaxTLogs : TLogSnapsDone(uid, failed)
  \/ \E uid \in Uids, failed \in SUBSET TLogs, coords \in 0..MaxCoord :
       EnablePopsDone(uid, failed, coords)
  \/ \E uid \in Uids, failed \in 0..MaxCoord : CoordSnapsDone(uid, failed)
  \/ \E uid \in Uids : ClearFlagCommitted(uid)
  \/ \E uid \in Uids, failed \in SUBSET TLogs : RecoveryDone(uid, failed)
  \/ \E uid \in Uids, e \in {"snap_with_recovery_unsupported", "timed_out"} :
       SnapInterrupted(uid, e)
  \/ \E uid \in Uids : SnapResultExpires(uid)
  \/ PrepareBlobRestore
  \/ HaltDataDistributor

SpecSnap == Init /\ [][NextSnap]_vars

NextSupervisor ==
  \/ \E b \in BOOLEAN : SetDDMode(b)
  \/ WaitDataDistributorEnabled
  \/ InitTakeMoveKeysLock
  \/ LoadDatabaseConfiguration
  \/ UpdateReplicaKeys
  \/ InitLoadInitialDataDistribution
  \/ StartGeneration
  \/ SignalRemoveFailedServer
  \/ \E e \in GenerationErrors : GenerationFails(e)
  \/ ShardsCleared
  \/ \E e \in {"", "operation_failed"} : RemoveKeysFromFailedServerDone(e)
  \/ \E e \in {"", "operation_failed"} : RemoveStorageServerDone(e)
  \/ CheckedEnabled
  \/ SupervisorCancelled
  \/ \E requester \in Requesters, isBlobMigrator \in BOOLEAN :
       ServeBlobMigratorRequest(requester, isBlobMigrator)
  \/ \E e \in {"", "operation_failed"} : PrepareDataMigrationDone(e)
  \/ DistributorSnap(1, "P")
  \/ SnapInterrupted(1, "timed_out")

SpecSupervisor == Init /\ [][NextSupervisor]_vars

\* an audit's children on every progress and every placement within the bounds
InitWalk ==
  /\ AuditIdle
  /\ WigglerIdle
  /\ ResumeIdle
  /\ SnapIdle
  /\ SupIdle
  /\ WalkIdle
  /\ BusIdle
  /\ shards = <<EndShard>>
  /\ dataMoveMap = << <<allKeys, NoDataMove>> >>
  /\ userRangeConfig = << [begin |-> 0, replicationFactor |-> 0] >>
  /\ configuration = [usableRegions |-> 1, storageTeamSize |-> 1,
                      SHARD_ENCODE_LOCATION_METADATA |-> FALSE,
                      ENABLE_DD_PHYSICAL_SHARD |-> FALSE, ddLargeTeamEnabled |-> FALSE]
  /\ walkType \in WalkTypes
  /\ auditProgress \in [WalkKeys -> ProgressPhases]
  /\ rangeLocations \in [WalkKeys -> 1..MaxReplicas]
  /\ walkType \notin {"ValidateHA", "ValidateReplica"} =>
       rangeLocations = [k \in WalkKeys |-> MaxReplicas]

NextWalk ==
  \/ LoadAndDispatchAudit
  \/ \E e \in 1..MaxAuditKey : MakeAuditProgressGotStates(e)
  \/ MakeAuditProgressReadFails
  \/ MakeAuditProgressDelayOver
  \/ \E b \in WalkKeys, r \in 1..MaxAuditKey : ScheduleAuditGotLocations(b, r)
  \/ \E b \in WalkKeys : ScheduleAuditReadFails(b)
  \/ \E b \in WalkKeys : ScheduleAuditDelayOver(b)
  \/ \E k \in WalkKeys, e \in {"ok", "audit_storage_error", "audit_storage_failed"} :
       DoAuditOnStorageServerReplied(k, e)
  \/ AuditActorsCancelled

SpecWalk == InitWalk /\ [][NextWalk]_vars

NextBus ==
  \/ NextResume
  \/ GenerationTornDown

SpecBus == InitResume /\ [][NextBus]_vars

\* ------------------------------------------------------------------- claims

\* C1: in every reachable state the runtime audit map holds at most one DDAudit
\* in phase Running per audit type.
AtMostOneRunningAuditPerType ==
  \A t \in AuditTypes :
    Cardinality({k \in AuditKeys :
                   k[1] = t /\ audits[k].pc # "none" /\ audits[k].phase = "Running"}) <= 1

\* The step in which request q's launchAudit gets past its wait for the two
\* promises and looks at the audit map
LaunchChecksMap(q) ==
  /\ ddState' = "up"
  /\ genPhase' = "running"
  /\ reqs[q].pc \in {"new", "retryDelay", "waitInit"}
  /\ reqs'[q] # reqs[q]

\* The audits of type t in the map / those of them Running with a range containing range
InMapOfType(t) == {k \in AuditKeys : k[1] = t /\ audits[k].pc # "none"}
RunningAndContaining(t, range) ==
  {k \in InMapOfType(t) :
     /\ audits[k].phase = "Running"
     /\ audits[k].range[1] <= range[1]
     /\ range[2] <= audits[k].range[2]}

\* C2: when launchAudit looks at the map and finds a Running audit of the
\* request's type whose range contains the request's range, the request is
\* answered with the id of such an audit, no audit state is persisted and the
\* map is unchanged.
LaunchAuditIdempotent ==
  [][\A q \in Reqs :
       (LaunchChecksMap(q)
          /\ RunningAndContaining(reqs'[q].type, reqs'[q].range) # {})
       => /\ reqs'[q].pc = "done"
          /\ reqs'[q].err = ""
          /\ \E k \in RunningAndContaining(reqs'[q].type, reqs'[q].range) :
               reqs'[q].replies = Append(reqs[q].replies, IdReply(k))
          /\ disk' = disk
          /\ audits' = audits]_vars

\* C2 happens: two requests were answered with the id of the same audit
TwoRequestsSameAudit ==
  \E q1, q2 \in Reqs :
    /\ q1 < q2
    /\ reqs[q1].pc = "done" /\ reqs[q2].pc = "done"
    /\ reqs[q1].err = "" /\ reqs[q2].err = ""
    /\ reqs[q1].replies = reqs[q2].replies
    /\ Len(reqs[q1].replies) = 1
    /\ reqs[q2].range # reqs[q1].range

\* C3: an audit whose in-memory phase is Complete leaves the audit map (by
\* auditStorageCore, not by a halt or a resume) only with its durable phase
\* Complete.
CompleteIsDurableAtRemoval ==
  [][\A k \in AuditKeys :
       (/\ ddState' # "halted"
        /\ genPhase' = genPhase
        /\ audits[k].pc # "none"
        /\ audits[k].phase = "Complete"
        /\ audits'[k].pc = "none")
       => disk'[k].phase = "Complete"]_vars

\* C4 as stated: once the audits are initialized, an audit is in the runtime map
\* if and only if its durable phase is not terminal (it is Running).
LiveIffNotTerminalOnDisk ==
  (ddState = "up" /\ AuditInitialized)
  => \A k \in AuditKeys :
       k[1] \in AuditTypes => (audits[k].pc # "none" <=> disk[k].phase = "Running")

\* C4, amended: every audit in the runtime map is of a supported type and has a
\* durable audit state with its id and range (it was persisted before it was
\* registered).
RegisteredAuditIsDurable ==
  \A k \in AuditKeys :
    audits[k].pc # "none"
    => /\ k[1] \in AuditTypes
       /\ disk[k].phase # "Invalid"
       /\ disk[k].range = audits[k].range

\* C4 happens: an audit launched by a request is in the map of a running generation
LaunchedAuditRegistered ==
  \E k \in AuditKeys, q \in Reqs :
    /\ genPhase = "running"
    /\ audits[k].pc = "children"
    /\ reqs[q].pc = "done"
    /\ reqs[q].replies = <<IdReply(k)>>

\* C5 as stated: when an audit whose children keep failing has used up its
\* retries, its entry leaves the map with its durable phase Failed.
RetryExhaustionPersistsFailed ==
  [][\A k \in AuditKeys :
       (/\ ddState' = "up"
        /\ genPhase' = genPhase
        /\ audits[k].pc = "persistFailed"
        /\ audits[k].err = "retry"
        /\ audits'[k].pc = "none")
       => disk'[k].phase = "Failed"]_vars

\* C5, amended: an audit never retries more than AUDIT_RETRY_COUNT_MAX times;
\* when its children fail in the generation with retryCount = AUDIT_RETRY_COUNT_MAX
\* its phase is set to Failed and nothing is retried; from there its entry is
\* removed from the map, with the durable phase Failed if persistAuditState
\* succeeded and the durable state unchanged if it failed.
RetryExhaustionEndsAudit ==
  [][\A k \in AuditKeys :
       /\ audits'[k].retryCount <= AUDIT_RETRY_COUNT_MAX
       /\ (ddState' = "up" /\ genPhase' = genPhase)
          => /\ (/\ audits[k].pc = "children"
                 /\ audits[k].retryCount = AUDIT_RETRY_COUNT_MAX
                 /\ audits'[k].err = "retry")
                => /\ audits'[k].pc = "persistFailed"
                   /\ audits'[k].phase = "Failed"
                   /\ disk' = disk
             /\ (audits[k].pc = "persistFailed" /\ audits'[k] # audits[k])
                => /\ audits'[k] = NoAudit
                   /\ \/ disk' = [disk EXCEPT ![k].phase = "Failed"]
                      \/ disk' = disk]_vars

\* C5 happens: an audit's durable phase is Failed and its entry is gone
FailedAuditRemoved ==
  \E k \in AuditKeys :
    /\ ddState = "up"
    /\ disk[k].phase = "Failed"
    /\ audits[k].pc = "none"

\* C6: when launchAudit looks at the map and finds audits of the request's type
\* but none Running with a range containing the request's range, it fails with
\* audit_storage_exceeded_request_limit, no audit state is persisted and the map
\* is unchanged.
LaunchExceedsRequestLimit ==
  [][\A q \in Reqs :
       (/\ LaunchChecksMap(q)
        /\ InMapOfType(reqs'[q].type) # {}
        /\ RunningAndContaining(reqs'[q].type, reqs'[q].range) = {})
       => /\ reqs'[q].err = "audit_storage_exceeded_request_limit"
          /\ \/ reqs'[q].pc = "retryDelay" /\ reqs'[q].replies = reqs[q].replies
             \/ /\ reqs'[q].pc = "done"
                /\ reqs'[q].replies =
                     Append(reqs[q].replies, ErrReply("audit_storage_failed"))
          /\ disk' = disk
          /\ audits' = audits]_vars

\* C6 happens: a launch failed with audit_storage_exceeded_request_limit
LaunchHitRequestLimit ==
  \E q \in Reqs :
    /\ reqs[q].err = "audit_storage_exceeded_request_limit"
    /\ InMapOfType(reqs[q].type) # {}

\* C7: every TriggerAudit request gets at most one reply, a finished handler has
\* sent exactly one, and a reply is an audit id, not_implemented,
\* audit_storage_failed or broken_promise.
ExactlyOneReply ==
  \A q \in Reqs :
    /\ Len(reqs[q].replies) <= 1
    /\ reqs[q].pc = "done" => Len(reqs[q].replies) = 1
    /\ \A i \in 1..Len(reqs[q].replies) :
         reqs[q].replies[i].err \in
           {"", "not_implemented", "audit_storage_failed", "broken_promise"}

\* C8: each server id has at most one node in wiggle_pq, pq_handles and
\* wiggle_pq hold the same server ids, and the id getNextServerId has just
\* returned is in neither.
WigglerQueueConsistent ==
  /\ \A id \in Servers : Cardinality({e \in wiggle_pq : e[2] = id}) <= 1
  /\ {e[2] : e \in wiggle_pq} = pq_handles
  /\ (lastCall.op = "getNextServerId" /\ lastCall.result # NoServer)
     => /\ lastCall.result \notin pq_handles
        /\ \A e \in wiggle_pq : e[2] # lastCall.result

\* C8 happens: getNextServerId has returned a server and another is still queued
ServerPoppedOthersQueued ==
  /\ lastCall.op = "getNextServerId"
  /\ lastCall.result # NoServer
  /\ wiggle_pq # {}

\* C9: the servers getNextServerId has returned since the queue was last edited
\* are distinct nodes of that queue, wrongly configured ones before correctly
\* configured ones and in ascending createdTime within the same flag; the nodes
\* not yet returned are still queued; and getNextServerId() returns absent only
\* once every node has been returned.
WiggleOrder ==
  /\ \A i, j \in 1..Len(nextSeq) :
       i < j => /\ nextSeq[i][2] # nextSeq[j][2]
                /\ nextSeq[i][1].wrongConfigured \/ ~nextSeq[j][1].wrongConfigured
                /\ nextSeq[i][1].wrongConfigured = nextSeq[j][1].wrongConfigured
                   => nextSeq[i][1].createdTime <= nextSeq[j][1].createdTime
  /\ {nextSeq[i] : i \in 1..Len(nextSeq)} \cup wiggle_pq = queued
  /\ {nextSeq[i] : i \in 1..Len(nextSeq)} \cap wiggle_pq = {}
  /\ (lastCall.op = "getNextServerId" /\ ~lastCall.necessaryOnly
        /\ lastCall.result = NoServer)
     => /\ wiggle_pq = {}
        /\ {nextSeq[i] : i \in 1..Len(nextSeq)} = queued

\* C9 happens: the servers added have all been returned, a wrongly configured
\* one before a correctly configured older one, and the next call returned absent
AllServersWiggledInOrder ==
  /\ Len(nextSeq) = 2
  /\ nextSeq[1][1].wrongConfigured
  /\ ~nextSeq[2][1].wrongConfigured
  /\ nextSeq[1][1].createdTime > nextSeq[2][1].createdTime
  /\ lastCall.op = "getNextServerId"
  /\ ~lastCall.necessaryOnly
  /\ lastCall.result = NoServer

\* A step that is a call of getNextServerId
IsGetNextServerId == lastCall'.op = "getNextServerId" /\ now' = now

\* C10: getNextServerId on an empty queue returns absent; getNextServerId(true)
\* when the minimum node is neither wrongly configured nor older than
\* DD_STORAGE_WIGGLE_MIN_SS_AGE_SEC returns absent and leaves wiggle_pq and
\* pq_handles as they were.
GetNextServerIdAbsent ==
  [][IsGetNextServerId
     => /\ wiggle_pq = {}
           => lastCall'.result = NoServer /\ wiggle_pq' = {} /\ pq_handles' = pq_handles
        /\ (/\ lastCall'.necessaryOnly
            /\ wiggle_pq # {}
            /\ \A e \in wiggle_pq :
                 (\A f \in wiggle_pq :
                    /\ e[1].wrongConfigured \/ ~f[1].wrongConfigured
                    /\ e[1].wrongConfigured = f[1].wrongConfigured
                       => e[1].createdTime <= f[1].createdTime)
                 => /\ ~e[1].wrongConfigured
                    /\ now - e[1].createdTime <= DD_STORAGE_WIGGLE_MIN_SS_AGE_SEC)
           => /\ lastCall'.result = NoServer
              /\ wiggle_pq' = wiggle_pq
              /\ pq_handles' = pq_handles]_vars

\* C10 happens: getNextServerId(true) returned absent with servers queued, one
\* of them already of the minimum age
NecessaryOnlyYoungHead ==
  /\ lastCall.op = "getNextServerId"
  /\ lastCall.necessaryOnly
  /\ lastCall.result = NoServer
  /\ \E e \in wiggle_pq : now - e[1].createdTime = DD_STORAGE_WIGGLE_MIN_SS_AGE_SEC

\* ---------------------------------------------------- claims: resumption

\* single region, team size one, no custom range, one primary source per shard
SingleReplicaSetup ==
  /\ configuration.usableRegions = 1
  /\ configuration.storageTeamSize = 1
  /\ Len(userRangeConfig) = 1
  /\ userRangeConfig[1].replicationFactor = 0
  /\ \A i \in 1..(Len(shards) - 1) : shards[i].primarySrc = 1

\* the shards before the sentinel that resumeFromShards has gone through
ShardsDone == 1..(IF shard < Len(shards) THEN shard ELSE Len(shards) - 1)

\* resumeFromShards is running or has just returned: nothing sent by resumeFromDataMoves yet
PhaseAOnly == resumePc = "shards" \/ (resumePc = "dataMoves" /\ it = 0)

RECURSIVE ExpectedRelocations(_)
\* one RECOVER_MOVE relocation of [shards[i].key, shards[i+1].key) for every
\* shard i <= n that has an anonymous destination, in shard order
ExpectedRelocations(n) ==
  IF n = 0 THEN <<>>
  ELSE ExpectedRelocations(n - 1) \o
       (IF shards[n].hasDest /\ shards[n].destId = anonymousShardId
        THEN << [keys |-> <<shards[n].key, shards[n + 1].key>>, reason |-> "RECOVER_MOVE",
                 dataMoveId |-> anonymousShardId, cancelled |-> FALSE, restore |-> FALSE] >>
        ELSE <<>>)

\* C11: in a single-region, team-size-one setup without custom ranges where
\* every shard has one primary source, resumeFromShards sends exactly one
\* relocation per shard that has a destination with the anonymous id and none
\* for the others, in shard order, each with reason RECOVER_MOVE, anonymous
\* dataMoveId, not cancelled, not a restore, and keys [shards[i].key, shards[i+1].key)
ResumeFromShardsEmitsInFlightMoves ==
  (SingleReplicaSetup /\ Len(shards) > 0 /\ PhaseAOnly)
    => relocationProducer = ExpectedRelocations(Cardinality(ShardsDone))

\* resumeFromShards has returned on three entries: the first shard was moving
\* to an anonymous destination and was sent, the second belongs to a data move and was not
OneOfTwoShardsResumed ==
  /\ SingleReplicaSetup
  /\ resumePc = "dataMoves" /\ it = 0
  /\ Len(shards) = 3
  /\ shards[1].hasDest /\ shards[1].destId = anonymousShardId
  /\ shards[2].hasDest /\ shards[2].destId # anonymousShardId
  /\ Len(relocationProducer) = 1
  /\ relocationProducer[1].keys = <<shards[1].key, shards[2].key>>

\* KeyRangeRef::intersects: two ranges share a key
Overlap(a, b) == a[1] < b[2] /\ b[1] < a[2]

\* C12 as stated: every relocation sent by resumeFromShards or
\* resumeFromDataMoves has keys within allKeys, and no two consecutive ones
\* share a key (a shared boundary aside). Checked on shard lists that end
\* with their sentinel and data moves whose first range is their map entry's.
EmissionsDisjointAcrossPhases ==
  (/\ Len(shards) > 0
   /\ \A e \in 1..Len(dataMoveMap) :
        \/ dataMoveMap[e][2].meta.ranges = <<>>
        \/ dataMoveMap[e][2].meta.ranges[1] = dataMoveMap[e][1]) =>
    /\ \A i \in 1..Len(relocationProducer) : Contains(allKeys, relocationProducer[i].keys)
    /\ \A i \in 1..(Len(relocationProducer) - 1) :
         ~Overlap(relocationProducer[i].keys, relocationProducer[i + 1].keys)

\* C12 amended: on a shard list that ends with its sentinel, every relocation
\* sent has keys within allKeys, and two consecutive relocations sent by
\* resumeFromShards are in key order: the earlier ends at or before the later
\* begins. A relocation of resumeFromDataMoves carries the first range of its
\* data move and may overlap the one sent before it.
ShardEmissionsOrderedAndWithinAllKeys ==
  Len(shards) > 0 =>
    /\ \A i \in 1..Len(relocationProducer) : Contains(allKeys, relocationProducer[i].keys)
    /\ PhaseAOnly =>
         \A i \in 1..(Len(relocationProducer) - 1) :
           relocationProducer[i].keys[2] <= relocationProducer[i + 1].keys[1]

\* resumeFromShards has cut one shard at a custom boundary and sent both pieces
SplitShardBothPiecesSent ==
  /\ resumePc = "dataMoves" /\ it = 0
  /\ Len(shards) = 2
  /\ Len(relocationProducer) = 2
  /\ relocationProducer[1].keys[2] = relocationProducer[2].keys[1]
  /\ relocationProducer[2].reason = "SPLIT_SHARD"

\* C13: on an empty shard list resumeFromShards reads no shard entry, sends
\* nothing and returns: the loop bound shards.size() - 1 admits no iteration
EmptyShardListIsSkipped ==
  Len(shards) = 0 =>
    /\ shardReads = {}
    /\ resumePc # "crashed"
    /\ (resumePc = "shards" => relocationProducer = <<>>)

\* the relocations the step appends to relocationProducer
NewlySent == SubSeq(relocationProducer', Len(relocationProducer) + 1, Len(relocationProducer'))

\* C14: for a data-move map entry resumeFromDataMoves sends nothing when
\* meta.ranges is empty; else exactly one relocation with cancelled set,
\* dataMoveId meta.id, keys meta.ranges.front() and reason RECOVER_MOVE when
\* the move is cancelled, or valid with the location metadata encoding off;
\* else exactly one restore relocation when the move is valid; else nothing
DataMoveEntryEmission ==
  [][(resumePc = "dataMoves" /\ it' = it + 1) =>
       LET dm == dataMoveMap[it + 1][2]
           rs == [keys |-> dm.meta.ranges[1], reason |-> "RECOVER_MOVE",
                  dataMoveId |-> dm.meta.id, cancelled |-> FALSE, restore |-> FALSE]
       IN IF dm.meta.ranges = <<>> THEN NewlySent = <<>>
          ELSE IF dm.cancelled \/ (dm.valid /\ ~configuration.SHARD_ENCODE_LOCATION_METADATA)
          THEN NewlySent = <<[rs EXCEPT !.cancelled = TRUE]>>
          ELSE IF dm.valid
          THEN NewlySent = <<[rs EXCEPT !.restore = TRUE]>>
          ELSE NewlySent = <<>>]_vars

\* with the encoding off, a valid move that was not cancelled has been sent as a cancellation
ValidMoveCancelledWithoutEncoding ==
  /\ resumePc = "dataMoves" /\ it = 1
  /\ ~configuration.SHARD_ENCODE_LOCATION_METADATA
  /\ dataMoveMap[1][2].valid /\ ~dataMoveMap[1][2].cancelled
  /\ Len(dataMoveMap[1][2].meta.ranges) = 2
  /\ Len(relocationProducer) > 0
  /\ relocationProducer[Len(relocationProducer)].cancelled
  /\ relocationProducer[Len(relocationProducer)].keys = dataMoveMap[1][2].meta.ranges[1]

\* C15: every relocation sent with restore set carries a dataMoveId other
\* than the anonymous one
RestoreHasDataMoveId ==
  \A i \in 1..Len(relocationProducer) :
    relocationProducer[i].restore => relocationProducer[i].dataMoveId # anonymousShardId

\* a valid data move has been sent for restore under its own id
DataMoveRestored ==
  /\ configuration.SHARD_ENCODE_LOCATION_METADATA
  /\ \E i \in 1..Len(relocationProducer) :
       /\ relocationProducer[i].restore
       /\ ~relocationProducer[i].cancelled
       /\ \E e \in 1..Len(dataMoveMap) :
            /\ dataMoveMap[e][2].valid
            /\ relocationProducer[i].dataMoveId = dataMoveMap[e][2].meta.id
            /\ relocationProducer[i].keys = dataMoveMap[e][1]

\* ------------------------------------------------------- claims: snapshots

\* the step is the handler's, on a request for uid u
ReceivedFor(u) ==
  /\ Len(snapReqs') = Len(snapReqs) + 1
  /\ snapReqs'[Len(snapReqs')].snapUID = u

\* C16: a DistributorSnap for a uid whose earlier request is still in flight
\* is answered duplicate_snapshot_request when its payload differs from the
\* in-flight one, and takes part in the in-flight orchestration when the
\* payloads match; no second orchestration is started for the uid
DuplicateInFlightDroppedOrCoalesced ==
  [][\A u \in Uids :
       (ReceivedFor(u) /\ ddSnapReqMap[u] # NoRequest /\ ddSnapReqResultMap[u] = "none") =>
         /\ coreRuns'[u] = coreRuns[u]
         /\ IF snapReqs'[Len(snapReqs')].snapPayload # snapReqs[ddSnapReqMap[u]].snapPayload
            THEN /\ snapReqs'[Len(snapReqs')].reply = "duplicate_snapshot_request"
                 /\ distributor' = "running"
            ELSE /\ snapReqs'[Len(snapReqs')].reply = ""
                 /\ ddSnapReqMap'[u] # NoRequest]_vars

\* C17: a DistributorSnap for a uid whose earlier request has finished less
\* than SNAP_MINIMUM_TIME_GAP ago is answered with the recorded outcome and
\* starts no orchestration; the outcome stays recorded exactly until the gap
\* has elapsed, and is erased then
FinishedSnapshotReplayed ==
  [][\A u \in Uids :
       /\ (ReceivedFor(u) /\ ddSnapReqResultMap[u] # "none") =>
            /\ snapReqs'[Len(snapReqs')].reply = ddSnapReqResultMap[u]
            /\ coreRuns' = coreRuns
            /\ snapCore' = snapCore
            /\ ddSnapReqResultMap' = ddSnapReqResultMap
       /\ distributor = "running" => (ddSnapReqResultMap[u] # "none" <=> snapCore[u].pc = "gap")
       /\ (snapCore[u].pc = "gap" /\ ddSnapReqResultMap'[u] # ddSnapReqResultMap[u]) =>
            (ddSnapReqResultMap'[u] = "none" /\ snapCore'[u].pc = "idle")]_vars

\* the second request for the uid arrived within the gap and got the failure
\* recorded for the first; the orchestrator ran once
SecondRequestGotRecordedFailure ==
  /\ Len(snapReqs) = 2
  /\ snapReqs[1].snapUID = snapReqs[2].snapUID
  /\ snapReqs[1].reply = "snap_tlog_failed"
  /\ snapReqs[2].reply = "snap_tlog_failed"
  /\ coreRuns[snapReqs[1].snapUID] = 1
  /\ snapCore[snapReqs[1].snapUID].pc = "gap"

\* C18: a request whose uid cannot take DDEnabledState (a snapshot of another
\* uid or a blob restore holds it) is answered operation_failed: the
\* write-recovery flag is not written, no orchestration starts (no pop is
\* disabled, no snapshot request is sent), DDEnabledState stays as it is and
\* the failure is recorded in the result map
RejectedWhenDDNotEnabled ==
  [][\A u \in Uids :
       (/\ ReceivedFor(u)
        /\ ddSnapReqMap[u] = NoRequest /\ ddSnapReqResultMap[u] = "none"
        /\ ddEnabledState.mode # "enabled") =>
         /\ snapReqs'[Len(snapReqs')].reply = "operation_failed"
         /\ writeRecoveryKey' = writeRecoveryKey
         /\ coreRuns' = coreRuns
         /\ snapCore'[u].disablePops = {} /\ snapCore'[u].snapRpcs = {}
         /\ ddEnabledState' = ddEnabledState
         /\ ddSnapReqMap'[u] = NoRequest
         /\ ddSnapReqResultMap'[u] = "operation_failed"]_vars

\* a request was rejected while the snapshot of the other uid owns DDEnabledState
RejectedWhileOtherSnapshotRuns ==
  /\ Len(snapReqs) = 2
  /\ snapReqs[2].reply = "operation_failed"
  /\ ddEnabledState = [mode |-> "snapshot", owner |-> snapReqs[1].snapUID]
  /\ snapReqs[1].snapUID # snapReqs[2].snapUID
  /\ ddSnapReqResultMap[snapReqs[2].snapUID] = "operation_failed"
  /\ coreRuns[snapReqs[2].snapUID] = 0
  /\ snapCore[snapReqs[1].snapUID].pc = "storage"

\* C19: the storage phase succeeds exactly when the failed storage requests
\* are at most storageFaultTolerance and fails with snap_storage_failed
\* otherwise; the tlog phase fails with snap_tlog_failed on any failure; the
\* coordinator phase succeeds exactly when the failures among n coordinators
\* are at most min(MAX_COORDINATOR_SNAPSHOT_FAULT_TOLERANCE, max(0, n/2 - 1))
SnapshotPhaseTolerances ==
  [][\A u \in Uids :
       LET c == snapCore[u]
           d == snapCore'[u]
       IN /\ (c.pc = "storage" /\ d.pc \in {"tlog", "recovering"}) =>
               /\ d.pc = "tlog" <=> d.failed <= c.storageFaultTolerance
               /\ d.pc = "recovering" => d.err = "snap_storage_failed"
          /\ (c.pc = "tlog" /\ d.pc \in {"enablePop", "recovering"}) =>
               /\ d.pc = "enablePop" <=> d.failed = 0
               /\ d.pc = "recovering" => d.err = "snap_tlog_failed"
          /\ (c.pc = "coord" /\ (d.pc = "clearFlag" \/ d.err = "snap_coord_failed")) =>
               /\ d.pc = "clearFlag" <=>
                    d.failed <= Min(MAX_COORDINATOR_SNAPSHOT_FAULT_TOLERANCE,
                                    Max(0, (c.coords \div 2) - 1))
               /\ d.pc # "clearFlag" => d.pc = "gap"]_vars

\* the storage phase succeeded with no failure at tolerance 0, and the
\* coordinator phase then succeeded with one of four coordinators failing
PhasesWithinTolerance ==
  \E u \in Uids :
    /\ snapCore[u].pc = "clearFlag"
    /\ snapCore[u].storage = 1
    /\ snapCore[u].storageFaultTolerance = 0
    /\ snapCore[u].coords = 4
    /\ snapCore[u].failed = 1

\* the ddSnapCreate of u has ended with an error after its disable-pop requests went out
EndedInErrorAfterDisable(u) ==
  /\ snapCore[u].pc \in {"gap", "cancelled"}
  /\ snapCore[u].err # ""
  /\ snapCore[u].disablePops = TLogs

\* C20 as stated: whenever the orchestration ends in an error after the
\* disable-pop requests went out, the failure path has sent an enable-pop
\* request to every local tlog before the error is reported
EveryFailureReenablesPops ==
  \A u \in Uids : EndedInErrorAfterDisable(u) => snapCore[u].recoveryPops = TLogs

\* C20 amended: when the orchestration ends after the disable-pop requests
\* went out because of a failed disable-pop, storage or tlog step, the timeout,
\* a dbInfo change or a cancellation, the failure path has sent an enable-pop
\* request to every local tlog before the error is reported, and the error
\* reported is the original one whatever those requests return. When the
\* enable-pop step or the coordinator step fails, no further enable-pop
\* request is sent: the requests of the enable-pop step went to every tlog
\* and the step's own error is reported.
FailureReenablesPopsExceptLateSteps ==
  \A u \in Uids :
    EndedInErrorAfterDisable(u) =>
      /\ snapCore[u].pc = "gap" => ddSnapReqResultMap[u] = snapCore[u].err
      /\ IF snapCore[u].err \in {"snap_enable_tlog_pop_failed", "snap_coord_failed"}
         THEN snapCore[u].recoveryPops = {} /\ snapCore[u].enablePops = TLogs
         ELSE snapCore[u].recoveryPops = TLogs

\* the timeout ended an orchestration that was in its storage phase: the
\* enable-pop requests went out and timed_out was reported
TimedOutAfterDisablePops ==
  \E u \in Uids :
    /\ snapCore[u].pc = "gap"
    /\ snapCore[u].err = "timed_out"
    /\ snapCore[u].snapRpcs = {"storage"}
    /\ snapCore[u].disablePops = TLogs
    /\ snapCore[u].recoveryPops = TLogs
    /\ ddSnapReqResultMap[u] = "timed_out"

\* C21: the write-recovery flag is written before any disable-pop or snapshot
\* request of an orchestration is sent and is cleared when the orchestration
\* ends: while the role runs and no ddSnapCreateCore is running, every
\* request received so far having been answered, the flag is not set
WriteRecoveryFlagClearedAtEnd ==
  /\ \A u \in Uids : snapCore[u].pc = "writeFlag" =>
       (snapCore[u].disablePops = {} /\ snapCore[u].snapRpcs = {})
  /\ (/\ distributor = "running"
      /\ \A u \in Uids : snapCore[u].pc \notin CorePcs
      /\ \A i \in 1..Len(snapReqs) : snapReqs[i].reply # "") => writeRecoveryKey = FALSE

\* --------------------------------------------- claims: resumeFromShards marks

\* the sub-ranges resumeFromShards cuts shard n into
SubRanges(n) ==
  SplitRanges(SkipBoundaries(0, shards[n].key), shards[n].key, shards[n + 1].key).ranges

RECURSIVE SubRangeList(_)
\* the sub-ranges of the shards 1..n in the order they are processed, each
\* with its shard and its index r within the shard
SubRangeList(n) ==
  IF n = 0 THEN <<>>
  ELSE SubRangeList(n - 1) \o
       [i \in 1..Len(SubRanges(n)) |-> [iShard |-> shards[n], keys |-> SubRanges(n)[i], r |-> i - 1]]

\* the sub-ranges processed so far
Processed == SubRangeList(Cardinality(ShardsDone))

custom_replicas(sr) ==
  Max(configuration.storageTeamSize, rangeContaining(sr.keys[1]).replicationFactor)

\* a source team of the sub-range has not custom_replicas members
WrongSize(sr) ==
  \/ sr.iShard.primarySrc # custom_replicas(sr)
  \/ configuration.usableRegions > 1 /\ sr.iShard.remoteSrc # custom_replicas(sr)

OnLargeTeam(sr) == sr.iShard.primarySrc > configuration.storageTeamSize

\* the sub-ranges among the first j whose primary source exceeds storage_team_size
LargeCount(j) == Cardinality({i \in 1..j : OnLargeTeam(Processed[i])})

\* those of them whose source teams have custom_replicas members
HealthyLargeCount(j) ==
  Cardinality({i \in 1..j : OnLargeTeam(Processed[i]) /\ ~WrongSize(Processed[i])})

\* unhealthy, the count taken over every sub-range on a large team
UnhealthyCountingAll(j) ==
  \/ WrongSize(Processed[j])
  \/ OnLargeTeam(Processed[j]) /\ LargeCount(j) > DD_MAX_SHARDS_ON_LARGE_TEAMS

\* unhealthy, the count taken over the sub-ranges that passed the size tests
Unhealthy(j) ==
  \/ WrongSize(Processed[j])
  \/ OnLargeTeam(Processed[j]) /\ HealthyLargeCount(j) > DD_MAX_SHARDS_ON_LARGE_TEAMS

Emitted(j) ==
  \/ configuration.ddLargeTeamEnabled /\ (Unhealthy(j) \/ Processed[j].r > 0)
  \/ Processed[j].iShard.hasDest /\ Processed[j].iShard.destId = anonymousShardId

Reason(j) ==
  IF Unhealthy(j) THEN "TEAM_UNHEALTHY"
  ELSE IF Processed[j].r > 0 THEN "SPLIT_SHARD" ELSE "RECOVER_MOVE"

RECURSIVE EmissionsUpTo(_)
EmissionsUpTo(j) ==
  IF j = 0 THEN <<>>
  ELSE EmissionsUpTo(j - 1) \o
       (IF Emitted(j) THEN << <<Processed[j].keys, Reason(j)>> >> ELSE <<>>)

\* C27: resumeFromShards sends a relocation for a sub-range if and only if
\* large teams are enabled and the sub-range is unhealthy or not the first of
\* its shard, or the shard has a destination with the anonymous id; the reason
\* is TEAM_UNHEALTHY if the sub-range is unhealthy, else SPLIT_SHARD if it is
\* not the first of its shard, else RECOVER_MOVE
EmittedIffLargeTeamOrAnonymousDest ==
  (Len(shards) > 0 /\ PhaseAOnly) =>
    [i \in 1..Len(relocationProducer) |->
       <<relocationProducer[i].keys, relocationProducer[i].reason>>]
      = EmissionsUpTo(Len(Processed))

\* with large teams on, a shard without destination was cut in two: its first
\* piece is unhealthy and was sent as TEAM_UNHEALTHY, its second is healthy
\* and was sent as SPLIT_SHARD
LargeTeamEmissionsWithoutDest ==
  /\ configuration.ddLargeTeamEnabled
  /\ resumePc = "dataMoves" /\ it = 0
  /\ Len(shards) = 2
  /\ ~shards[1].hasDest
  /\ Len(Processed) = 2
  /\ Unhealthy(1) /\ ~Unhealthy(2)
  /\ Len(relocationProducer) = 2
  /\ relocationProducer[1].reason = "TEAM_UNHEALTHY"
  /\ relocationProducer[2].reason = "SPLIT_SHARD"

\* the sub-range (as an index of Processed) the relocation with these keys was sent for
SubRangeOf(keys) == CHOOSE j \in 1..Len(Processed) : Processed[j].keys = keys

\* C28 as stated: a sub-range is marked unhealthy exactly when a source team
\* has not custom_replicas members, or its primary source exceeds
\* storage_team_size and the count of the sub-ranges processed so far whose
\* primary source exceeds storage_team_size is above DD_MAX_SHARDS_ON_LARGE_TEAMS
UnhealthyCountsEveryLargeTeam ==
  (Len(shards) > 0 /\ PhaseAOnly) =>
    /\ \A i \in 1..Len(relocationProducer) :
         relocationProducer[i].reason = "TEAM_UNHEALTHY"
           <=> UnhealthyCountingAll(SubRangeOf(relocationProducer[i].keys))
    /\ configuration.ddLargeTeamEnabled =>
         \A j \in 1..Len(Processed) :
           UnhealthyCountingAll(j) =>
             \E i \in 1..Len(relocationProducer) :
               relocationProducer[i].keys = Processed[j].keys

\* C28 amended: a sub-range is marked unhealthy exactly when its shard's
\* primary-source size differs from custom_replicas, or (multi-region) its
\* remote-source size differs from custom_replicas, or it passed both tests,
\* its primary-source size exceeds storage_team_size and the running count of
\* the sub-ranges that passed both tests with a primary source above
\* storage_team_size, itself included, exceeds DD_MAX_SHARDS_ON_LARGE_TEAMS.
\* A sub-range that fails a size test is not counted.
UnhealthyCountsHealthyLargeTeams ==
  (Len(shards) > 0 /\ PhaseAOnly) =>
    /\ \A i \in 1..Len(relocationProducer) :
         relocationProducer[i].reason = "TEAM_UNHEALTHY"
           <=> Unhealthy(SubRangeOf(relocationProducer[i].keys))
    /\ configuration.ddLargeTeamEnabled =>
         \A j \in 1..Len(Processed) :
           Unhealthy(j) =>
             \E i \in 1..Len(relocationProducer) :
               relocationProducer[i].keys = Processed[j].keys
    /\ overreplicatedCount = HealthyLargeCount(Len(Processed))

\* two sub-ranges sit on a team of custom_replicas = 2 members: the first is
\* within DD_MAX_SHARDS_ON_LARGE_TEAMS, the second is over it and was sent as
\* TEAM_UNHEALTHY
SecondLargeTeamMarkedUnhealthy ==
  /\ configuration.ddLargeTeamEnabled
  /\ Len(shards) > 0 /\ PhaseAOnly
  /\ overreplicatedCount = 2
  /\ Len(Processed) = 2
  /\ ~WrongSize(Processed[1]) /\ ~WrongSize(Processed[2])
  /\ Len(relocationProducer) = 1
  /\ relocationProducer[1].keys = Processed[2].keys
  /\ relocationProducer[1].reason = "TEAM_UNHEALTHY"

\* ------------------------------------------------ claims: relocation stream

\* a relocation resumeFromDataMoves sends: a cancellation or a restore
FromDataMoves(rs) == rs.cancelled \/ rs.restore

\* C26: every relocation resumeFromShards sends is on relocationProducer
\* before any relocation of resumeFromDataMoves, and the queue has received
\* the values sent so far exactly once and in the order they were sent:
\* relocationConsumer is a prefix of relocationProducer
PhaseBAfterPhaseAAndFifoDelivery ==
  /\ \A i, j \in 1..Len(relocationProducer) :
       (i < j /\ FromDataMoves(relocationProducer[i])) => FromDataMoves(relocationProducer[j])
  /\ resumePc = "shards" =>
       \A i \in 1..Len(relocationProducer) : ~FromDataMoves(relocationProducer[i])
  /\ Len(relocationConsumer) <= Len(relocationProducer)
  /\ relocationConsumer = SubSeq(relocationProducer, 1, Len(relocationConsumer))

\* the queue has received a relocation of resumeFromShards and then a
\* relocation of resumeFromDataMoves, all that was sent
BothPhasesDelivered ==
  /\ resumePc = "done"
  /\ Len(shards) > 0
  /\ Len(relocationProducer) >= 2
  /\ relocationConsumer = relocationProducer
  /\ ~FromDataMoves(relocationConsumer[1])
  /\ FromDataMoves(relocationConsumer[Len(relocationConsumer)])

\* ------------------------------------------------ claims: audit final phase

\* C29: when the children of an audit have all finished, auditStorageCore
\* sets the phase to Error if foundError is set (whatever anyChildAuditFailed
\* is), else clears anyChildAuditFailed and throws retry if it is set, else
\* sets the phase to Complete; an audit whose phase is Error or Complete
\* leaves the audit map (by auditStorageCore, not by a halt or a resume) only
\* with that phase persisted
FinalPhaseDecidedAndPersisted ==
  [][\A k \in AuditKeys :
       (ddState' # "halted" /\ genPhase' = genPhase) =>
         /\ (audits[k].pc = "children" /\ audits'[k] # audits[k]) =>
              IF audits'[k].foundError
              THEN audits'[k].phase = "Error" /\ audits'[k].pc = "persistFinal"
              ELSE /\ ~audits'[k].anyChildAuditFailed
                   /\ \/ audits'[k].phase = "Complete" /\ audits'[k].pc = "persistFinal"
                      \/ audits'[k].err = "retry" /\ audits'[k].phase # "Complete"
         /\ (/\ audits[k].pc # "none"
             /\ audits[k].phase \in {"Error", "Complete"}
             /\ audits'[k].pc = "none")
            => disk'[k].phase = audits[k].phase]_vars

\* the audit auditStorageCore's retry branch registers for audit a
FreshAudit(a) ==
  [pc |-> "children", range |-> a.range, phase |-> "Running", retryCount |-> a.retryCount,
   foundError |-> FALSE, anyChildAuditFailed |-> FALSE, lock |-> lock, err |-> ""]

\* C30: on a retryable error auditStorageCore raises retryCount by one, removes
\* the old entry and registers a fresh audit of the same id, type and range
\* with the raised retryCount; within a generation of the supervisor the
\* retryCount of an audit id never decreases and never exceeds
\* AUDIT_RETRY_COUNT_MAX
RetryRegistersFreshAudit ==
  [][\A k \in AuditKeys :
       (ddState' # "halted" /\ genPhase' = genPhase) =>
         /\ audits'[k].retryCount <= AUDIT_RETRY_COUNT_MAX
         /\ (audits[k].pc # "none" /\ audits'[k].pc # "none") =>
              audits'[k].retryCount >= audits[k].retryCount
         /\ (audits[k].pc # "retryDelay" /\ audits'[k].pc = "retryDelay") =>
              /\ audits[k].retryCount < AUDIT_RETRY_COUNT_MAX
              /\ audits'[k].retryCount = audits[k].retryCount + 1
         /\ (audits[k].pc = "retryDelay" /\ audits'[k] # audits[k]) =>
              audits'[k] = FreshAudit(audits[k])]_vars

\* ------------------------------------------------------ claims: supervisor

IsPrefixOf(s, t) == Len(s) <= Len(t) /\ s = SubSeq(t, 1, Len(s))

\* the number of init steps completed when the loop stands at pc
StepsDoneAt(pc) ==
  CASE pc = "takeLock" -> 1 [] pc = "loadConfig" -> 2 [] pc = "updateReplicaKeys" -> 3
    [] pc = "loadInitial" -> 4 [] OTHER -> 5

\* C24: every iteration of init's loop performs wait-until-enabled, take lock,
\* load configuration, update replica keys, load initial distribution in this
\* order; the loop is left only when the loaded mode is enabled and the
\* in-memory DDEnabledState is enabled, and otherwise starts over at the first
\* step; the initial distribution a generation uses was loaded with the lock
\* taken in the same iteration
BootstrapIterationInOrder ==
  [][/\ (supPc' \in InitPcs \ {"waitEnabled"}) =>
          initLog' = SubSeq(InitSteps, 1, StepsDoneAt(supPc'))
     /\ (supPc \in InitPcs /\ supPc' \in InitPcs /\ supPc' # supPc) =>
          \/ supPc = "waitEnabled" /\ supPc' = "takeLock"
          \/ supPc = "takeLock" /\ supPc' = "loadConfig" /\ moveKeysLock' = moveKeysLock + 1
          \/ supPc = "loadConfig" /\ supPc' = "updateReplicaKeys"
          \/ supPc = "updateReplicaKeys" /\ supPc' = "loadInitial"
          \/ /\ supPc = "loadInitial" /\ supPc' = "waitEnabled"
             /\ ~(ddInitData'.mode /\ ddEnabledState.mode = "enabled")
     /\ (supPc # "startup" /\ supPc' = "startup") =>
          /\ supPc = "loadInitial"
          /\ initLog' = InitSteps
          /\ ddInitData'.mode
          /\ ddEnabledState.mode = "enabled"
     /\ (supPc' \in {"startup", "running"}) =>
          /\ ddInitData'.lock = moveKeysLock'
          /\ initLog' = InitSteps
          /\ ddInitData'.mode]_vars

\* init left its loop in its second iteration
BootstrapExitedAfterRepeat ==
  /\ supPc = "startup"
  /\ generations = 0
  /\ moveKeysLock = 2
  /\ ddInitData = [lock |-> 2, mode |-> TRUE]
  /\ initLog = InitSteps

NoRemovalSignalled == removeFailedServer = NoFailedServer

ConflictErrors == {"movekeys_conflict", "dd_config_changed"}

FailedServerRemovedThenRebootstrap ==
  [][/\ (~NoRemovalSignalled /\ supPc \in GenerationPcs /\ supPc' \in CatchPcs) =>
          /\ catchLog' = SubSeq(RemoveFailedServerSteps, 1, 2)
          /\ ~teamCollections'
     /\ (~NoRemovalSignalled /\ supPc' \in CatchPcs) =>
          /\ supPc' # "checkEnabled"
          /\ IsPrefixOf(catchLog', RemoveFailedServerSteps)
          /\ supPc' = "removeKeys" => catchLog' = SubSeq(RemoveFailedServerSteps, 1, 3)
          /\ supPc' = "removeServer" => catchLog' = SubSeq(RemoveFailedServerSteps, 1, 4)
     /\ (~NoRemovalSignalled /\ supPc \in CatchPcs /\ supPc' = "waitEnabled") =>
          /\ catchLog' = RemoveFailedServerSteps
          /\ thrown' = ""
     /\ (~NoRemovalSignalled /\ supPc \in CatchPcs /\ supPc' = "ended"
           /\ thrown' # "actor_cancelled") =>
          supPc \in {"removeKeys", "removeServer"}]_vars

\* a generation that ended with operation_failed after the signal was followed
\* by the removal and by init
RemovalDoneAfterOtherError ==
  /\ supPc = "waitEnabled"
  /\ generations = 1
  /\ genErr = "operation_failed"
  /\ catchLog = RemoveFailedServerSteps
  /\ thrown = ""
  /\ removeFailedServer = NoFailedServer

BlobReplies == {"SUCCESS", "CONFLICT_BLOB_RESTORE", "CONFLICT_SNAPSHOT"}

EveryAuditInMapAlive ==
  \A k \in AuditKeys :
    auditExistInAuditMap(k) =>
      audits[k].pc \in {"children", "persistFinal", "retryDelay", "persistFailed"}

\* what resumeStorageAudits leaves in the map for key k
ResumedFromDisk(k) ==
  IF initData[k].phase = "Running"
    THEN /\ audits'[k].pc = "children"
         /\ audits'[k].phase = "Running"
         /\ audits'[k].range = initData[k].range
         /\ audits'[k].retryCount = 0
         /\ audits'[k].lock = lock
    ELSE audits'[k] = NoAudit

\* C32: resumeStorageAudits cancels and removes every audit an earlier generation
\* left in the map, registers and runs exactly the durable audits in phase
\* Running, and then auditInitialized is set; no audit of an earlier generation
\* is in the map afterwards
ResumeReplacesMapByDurableRunning ==
  [][(genPhase = "loaded" /\ genPhase' = "auditReady") =>
       /\ ddState' = "up"
       /\ \A k \in AuditKeys : ResumedFromDisk(k)]_vars

\* C37: every call of runAuditStorage, from launchAudit, resumeStorageAudits
\* and auditStorageCore's retry branch, has an audit state in phase Running
\* with a valid id and a non-empty range whose (type, id) is not in the audit
\* map, so that none of its assertions fails
RunAuditStorageAssertionsHold ==
  [][\A k \in AuditKeys :
       /\ (audits'[k].pc = "children" /\ audits'[k] # audits[k]) =>
            /\ audits'[k].phase = "Running"
            /\ audits'[k].range \in Ranges
            /\ k[2] \in 1..MaxAuditId
            /\ \/ audits[k].pc \in {"none", "retryDelay"}
               \/ genPhase = "loaded" /\ genPhase' = "auditReady"
       /\ (/\ audits[k].pc = "retryDelay"
           /\ audits'[k] # audits[k]
           /\ ddState' # "halted"
           /\ genPhase' = genPhase) =>
            /\ audits[k].phase = "Running"
            /\ audits[k].range \in Ranges
            /\ ddState' = "up"]_vars

\* ------------------------------------------------- claims: snapshot order

\* ddSnapCreateCore's steps in program order
CoreSteps == <<"writeFlag", "disablePop", "getWorkers", "storage", "tlog", "enablePop", "coord",
               "clearFlag">>

StepIndex(pc) == CHOOSE i \in 1..Len(CoreSteps) : CoreSteps[i] = pc

\* C36: a snapshot that succeeds went through write-recovery flag set,
\* disable-pop on all local tlogs, storage snapshots, tlog snapshots,
\* enable-pop on all local tlogs, coordinator snapshots, flag cleared, each
\* step ended before the next began; no tlog snapshot request is sent before
\* the storage phase succeeded and no storage or tlog snapshot request is sent
\* while the tlog pops are enabled
SnapshotStepsInOrder ==
  [][\A u \in Uids :
       LET c == snapCore[u]
           d == snapCore'[u]
       IN /\ (d.pc \in CorePcs \ {"recovering"} /\ d.pc # c.pc) =>
               IF d.pc = "writeFlag" THEN c.pc \notin CorePcs
               ELSE c.pc \in CorePcs \ {"recovering"} /\ StepIndex(d.pc) = StepIndex(c.pc) + 1
          /\ ("storage" \in d.snapRpcs /\ "storage" \notin c.snapRpcs) =>
               /\ c.pc = "getWorkers"
               /\ writeRecoveryKey
               /\ c.disablePops = TLogs /\ c.enablePops = {} /\ c.recoveryPops = {}
               /\ "tlog" \notin d.snapRpcs
          /\ ("tlog" \in d.snapRpcs /\ "tlog" \notin c.snapRpcs) =>
               /\ c.pc = "storage"
               /\ "storage" \in c.snapRpcs
               /\ c.disablePops = TLogs /\ c.enablePops = {} /\ c.recoveryPops = {}
          /\ (d.enablePops # {} /\ c.enablePops = {}) =>
               c.pc = "tlog" /\ d.enablePops = TLogs
          /\ ("coord" \in d.snapRpcs /\ "coord" \notin c.snapRpcs) =>
               c.pc = "enablePop" /\ c.enablePops = TLogs
          /\ (ddSnapReqResultMap'[u] = "ok" /\ ddSnapReqResultMap[u] # "ok") =>
               /\ c.pc = "clearFlag"
               /\ c.snapRpcs = {"storage", "tlog", "coord"}
               /\ ~writeRecoveryKey']_vars

\* a snapshot went through all steps and succeeded
SnapshotSucceeded ==
  \E u \in Uids :
    /\ ddSnapReqResultMap[u] = "ok"
    /\ snapCore[u].pc = "gap"
    /\ snapCore[u].snapRpcs = {"storage", "tlog", "coord"}
    /\ snapCore[u].disablePops = TLogs
    /\ snapCore[u].enablePops = TLogs
    /\ ~writeRecoveryKey

\* ------------------------------------------ claims: snapshot DDEnabledState

\* C38: while a ddSnapCreate that took DDEnabledState runs, the state is the
\* snapshot state of its uid, so that its trySetEnabled succeeds; every way the
\* ddSnapCreate ends (success, an error of the core, the timeout, the dbInfo
\* change, cancellation) leaves DDEnabledState enabled; DDEnabledState is in the
\* snapshot state only while the request of its owner is unanswered
SnapshotReleasesDDEnabledState ==
  [][\A u \in Uids :
       /\ snapCore'[u].pc \in CorePcs =>
            ddEnabledState' = [mode |-> "snapshot", owner |-> u]
       /\ (snapCore[u].pc \in CorePcs /\ snapCore'[u].pc \notin CorePcs) =>
            /\ ddEnabledState = [mode |-> "snapshot", owner |-> u]
            /\ ddEnabledState' = Enabled
       /\ (ddEnabledState'.mode = "snapshot" /\ ddEnabledState'.owner = u) =>
            /\ snapCore'[u].pc \in CorePcs
            /\ ddSnapReqMap'[u] # NoRequest
            /\ snapReqs'[ddSnapReqMap'[u]].reply = ""]_vars

\* a snapshot ended by the timeout after its tlog requests went out, and
\* DDEnabledState is enabled again
TimedOutSnapshotReleased ==
  \E u \in Uids :
    /\ ddSnapReqResultMap[u] = "timed_out"
    /\ "tlog" \in snapCore[u].snapRpcs
    /\ snapReqs[1].reply = "timed_out"
    /\ ddEnabledState = Enabled

\* ------------------------------------------ claims: snapshot replies

\* C39: no uid is in ddSnapReqMap and in ddSnapReqResultMap at once, and unless
\* the role was halted every received DistributorSnap request has its answer
\* or is the request of its uid in ddSnapReqMap with its ddSnapCreate running
\* in a running role, which will answer it
EverySnapRequestAnswered ==
  /\ \A u \in Uids : ~(ddSnapReqMap[u] # NoRequest /\ ddSnapReqResultMap[u] # "none")
  /\ distributor # "halted" =>
       \A i \in 1..Len(snapReqs) :
         snapReqs[i].reply = "" =>
           /\ distributor = "running"
           /\ ddSnapReqMap[snapReqs[i].snapUID] = i
           /\ snapCore[snapReqs[i].snapUID].pc \in CorePcs

\* ------------------------------------------ claims: audit children

\* C33: the cursor begin of makeAuditProgressOnRange / makeAuditProgressOnServer
\* never decreases and grows with every iteration of the loop; the loop goes on
\* while begin < range.end and the walker ends once begin has reached range.end;
\* no key is ever in the range of two of the walker's children, children are
\* spawned for Invalid states only, and when the walker has ended every key of
\* the range in phase Invalid is in the range of exactly one child
WalkerCursorAdvances ==
  [][/\ walker'.begin >= walker.begin
     /\ (walker.pc = "read" /\ walker'.pc = "delay") => walker'.begin > walker.begin
     /\ (walker.pc = "delay" /\ walker'.pc \in {"read", "done"}) =>
          (walker'.pc = "done" <=> walker.begin = MaxAuditKey)
     /\ \A k \in WalkKeys :
          /\ spawned'[k] <= 1
          /\ spawned'[k] > spawned[k] =>
               /\ auditProgress[k] = "Invalid"
               /\ walker.begin <= k /\ k < walker'.begin
     /\ walker'.pc = "done" =>
          /\ walker'.begin = MaxAuditKey
          /\ \A k \in WalkKeys :
               spawned'[k] = IF auditProgress'[k] = "Invalid" THEN 1 ELSE 0]_vars

\* a walker that ended after more than one read: two neighbouring Invalid keys
\* went to two children, and a key that was Complete went to none
WalkerEndedAfterPartialRead ==
  /\ walker.pc = "done"
  /\ auditProgress[0] = "Invalid" /\ auditProgress[1] = "Invalid"
  /\ auditProgress[2] = "Complete"
  /\ spawned = [k \in WalkKeys |-> IF k = 2 THEN 0 ELSE 1]
  /\ walkType = "ValidateStorageServerShard"
  /\ doAudits[0].end = 1 /\ doAudits[1].end = 2

\* C34: a doAuditOnStorageServer whose request is answered sets foundError when
\* the answer is audit_storage_error, anyChildAuditFailed when it is another
\* error and neither flag when it is a reply, and leaves every other child, the
\* schedulers and the walker as they are; a cancelled doAuditOnStorageServer
\* ends with the cancellation and sets no foundError
DoAuditSetsItsFlagOnly ==
  [][\A k \in WalkKeys :
       /\ (doAudits[k].pc = "running" /\ doAudits'[k].pc = "done") =>
            /\ auditFlags'.foundError =
                 (auditFlags.foundError \/ doAudits'[k].reply = "audit_storage_error")
            /\ auditFlags'.anyChildAuditFailed =
                 (auditFlags.anyChildAuditFailed
                    \/ doAudits'[k].reply \notin {"ok", "audit_storage_error"})
            /\ \A j \in WalkKeys \ {k} : doAudits'[j] = doAudits[j]
            /\ schedulers' = schedulers
            /\ walker' = walker
       /\ (doAudits[k].pc = "running" /\ doAudits'[k].pc = "cancelled") =>
            /\ doAudits'[k].reply = ""
            /\ auditFlags'.foundError = auditFlags.foundError
            /\ (walker.pc \notin {"read", "delay"}
                  /\ \A j \in WalkKeys : schedulers[j].pc \notin {"read", "delay"}) =>
                 auditFlags' = auditFlags]_vars

\* one child failed with another error, and a child dispatched by the same
\* scheduleAuditOnRange was answered after that with a reply
ChildFailedOtherChildReplied ==
  /\ doAudits[0].reply = "audit_storage_failed"
  /\ doAudits[1].reply = "ok"
  /\ doAudits[2].pc = "running"
  /\ schedulers[0].end = 3
  /\ auditFlags = [foundError |-> FALSE, anyChildAuditFailed |-> TRUE]

\* C35: when a scheduleAuditOnRange of a ValidateHA or ValidateReplica audit
\* has returned, every sub-range of its range with at least two replicas had
\* exactly one doAuditOnStorageServer dispatched, the sub-ranges with a single
\* replica none
ScheduleAuditSkipsSingleReplicaOnly ==
  walkType \in {"ValidateHA", "ValidateReplica"} =>
    \A b \in WalkKeys :
      schedulers[b].pc = "done" =>
        \A k \in b..(schedulers[b].end - 1) :
          dispatched[k] = IF rangeLocations[k] >= 2 THEN 1 ELSE 0

\* ------------------------------------------ claims: relocation streams

\* C40: a RelocateShard sent on relocationProducer before a generation was
\* torn down and not received by the queue before that is not delivered to the
\* queue afterwards
TornDownGenerationLeavesStreamEmpty ==
  \A g \in 1..Len(tornDown) :
    tornDown[g].received < tornDown[g].sent =>
      Len(relocationConsumer) = tornDown[g].received

====
